---------------------------- MODULE Spec2Model ----------------------------
(***************************************************************************)
(* DiamondPad: the coordination detector (BundleDetector), the tier        *)
(* mapping of the rewards calculator and the POST /api/buy handler that    *)
(* drives the detector.                                                    *)
(*                                                                         *)
(* Units.  Times are milliseconds (Date.now()).  Amounts are integers in   *)
(* one unit for both the SOL amount of a buy record and the balance delta  *)
(* of a transaction (the /1e9 of extractBuyAmount is the change of unit    *)
(* from lamports to that unit).  Multipliers are in tenths (1.5x = 15).    *)
(***************************************************************************)
EXTENDS Integers, Sequences, FiniteSets, TLC

(***************************************************************************)
(* Bounds of the model.                                                    *)
(***************************************************************************)
\* hold durations 0..MaxHoldDays are queried
MaxHoldDays == 200
\* recent windows handed to evaluate hold at most MaxWindow buy events
MaxWindow == 5
\* addKnownBundler is called while the registry holds fewer wallets
MaxManual == 1
\* the clock advances at most MaxTicks milliseconds
MaxTicks == 1
\* the buy handler is entered at most MaxBuys times
MaxBuys == 4
\* at most MaxFailing age lookups of one evaluation fail
MaxFailing == 1
\* holder histories handed to calculateGlobalScore hold at most MaxHistory launches
MaxHistory == 2
\* calculateRewards is called at most MaxRewardCalls times on one holder and pool
MaxRewardCalls == 2
\* the clock jumps by a week at most MaxWeeks times
MaxWeeks == 1
\* at most MaxGraphCalls calls change the graph of four addresses
MaxGraphCalls == 3
\* at most MaxAdds calls of addWallet and MaxBuyRecords of recordBuy on the
\* scored graph
MaxAdds == 3
MaxBuyRecords == 6

\* buys of one wallet in a row, in the long windows
MaxRun == 16
\* buys of the long stream on one launch
MaxStream == 51
\* buys on one launch of the client that sends one request at a time
MaxSequentialBuys == 5

(***************************************************************************)
(* DIAMOND_CONFIG                                                          *)
(***************************************************************************)
\* maxDays of the DIAMOND tier: greater than every finite duration
Infinity == MaxHoldDays + 1

MULTIPLIERS ==
  [ PAPER    |-> [maxDays |-> 7,        multiplier |-> 10],
    BRONZE   |-> [maxDays |-> 30,       multiplier |-> 15],
    SILVER   |-> [maxDays |-> 60,       multiplier |-> 20],
    GOLD     |-> [maxDays |-> 90,       multiplier |-> 25],
    PLATINUM |-> [maxDays |-> 180,      multiplier |-> 30],
    DIAMOND  |-> [maxDays |-> Infinity, multiplier |-> 35] ]

BUNDLE_CONFIDENCE_THRESHOLD == 70
SAME_BLOCK_THRESHOLD == 3
BUNDLER_REWARD_DELAY_DAYS == 30
\* BUNDLER_REWARD_REDUCTION * 100
BUNDLER_REWARD_REDUCTION_PERCENT == 50

(***************************************************************************)
(* DiamondRewardsCalculator: tier of a hold duration                       *)
(***************************************************************************)
getDiamondRank(holdDays) ==
  IF holdDays >= MULTIPLIERS.DIAMOND.maxDays THEN "Diamond"
  ELSE IF holdDays >= MULTIPLIERS.PLATINUM.maxDays THEN "Platinum"
  ELSE IF holdDays >= MULTIPLIERS.GOLD.maxDays THEN "Gold"
  ELSE IF holdDays >= MULTIPLIERS.SILVER.maxDays THEN "Silver"
  ELSE IF holdDays >= MULTIPLIERS.BRONZE.maxDays THEN "Bronze"
  ELSE "Paper"

\* a faulty variant: the Platinum tier pays the Bronze multiplier
getMultiplierDipping(holdDays) ==
  IF holdDays >= 180 THEN MULTIPLIERS.DIAMOND.multiplier
  ELSE IF holdDays >= 90 THEN MULTIPLIERS.BRONZE.multiplier
  ELSE IF holdDays >= 60 THEN MULTIPLIERS.GOLD.multiplier
  ELSE IF holdDays >= 30 THEN MULTIPLIERS.SILVER.multiplier
  ELSE IF holdDays >= 7 THEN MULTIPLIERS.BRONZE.multiplier
  ELSE MULTIPLIERS.PAPER.multiplier

getMultiplier(holdDays) ==
  IF holdDays >= 180 THEN MULTIPLIERS.DIAMOND.multiplier
  ELSE IF holdDays >= 90 THEN MULTIPLIERS.PLATINUM.multiplier
  ELSE IF holdDays >= 60 THEN MULTIPLIERS.GOLD.multiplier
  ELSE IF holdDays >= 30 THEN MULTIPLIERS.SILVER.multiplier
  ELSE IF holdDays >= 7 THEN MULTIPLIERS.BRONZE.multiplier
  ELSE MULTIPLIERS.PAPER.multiplier

(***************************************************************************)
(* The collaborators: the ledger the RPC connection answers from.          *)
(***************************************************************************)
MS_PER_HOUR == 3600000

MS_PER_SECOND == 1000

MS_PER_DAY == 24 * MS_PER_HOUR

\* Date.now() when the process starts
T0 == 200 * MS_PER_HOUR

Wallets == {"w1", "w2", "w3", "w4", "w5", "w6"}

LaunchIds == {"L1"}

\* signatures the ledger knows, in the order of their transactions
ChainSigs == <<"s1", "s2", "s3", "s4", "s5", "s6", "s7">>

\* "s0" is a signature the ledger does not know
Signatures == {"s0"} \cup {ChainSigs[i] : i \in DOMAIN ChainSigs}

\* the slot of the transactions s1..s5.  The buy handler stamps its records
\* with Date.now() in place of the slot (index.ts 329) and the detector
\* compares the two (part_003 78): the slot is one the clock shows too
SlotA == T0

\* getParsedTransaction(signature): the transaction, or null (found = FALSE).
\* accountKeys[0] is buyer; preBalances[0] and postBalances[0] are pre and post.
\* time is the timestamp of the buy event the indexer makes of it.
getParsedTransaction(signature) ==
  CASE signature = "s1" -> [found |-> TRUE, slot |-> SlotA, buyer |-> "w1",
                            pre |-> 1000, post |-> 900, time |-> T0 + 10]
    [] signature = "s2" -> [found |-> TRUE, slot |-> SlotA, buyer |-> "w2",
                            pre |-> 1000, post |-> 899, time |-> T0 + 20]
    [] signature = "s3" -> [found |-> TRUE, slot |-> SlotA, buyer |-> "w3",
                            pre |-> 1000, post |-> 898, time |-> T0 + 30]
    [] signature = "s4" -> [found |-> TRUE, slot |-> SlotA, buyer |-> "w4",
                            pre |-> 1000, post |-> 900, time |-> T0 + 40]
    [] signature = "s5" -> [found |-> TRUE, slot |-> SlotA, buyer |-> "w5",
                            pre |-> 1000, post |-> 899, time |-> T0 + 50]
    [] signature = "s6" -> [found |-> TRUE, slot |-> SlotA, buyer |-> "w2",
                            pre |-> 899, post |-> 699, time |-> T0 + 900]
    [] signature = "s7" -> [found |-> TRUE, slot |-> SlotA + 1, buyer |-> "w6",
                            pre |-> 500, post |-> 450, time |-> T0 + 910]
    [] OTHER -> [found |-> FALSE, slot |-> 0, buyer |-> "", pre |-> 0,
                 post |-> 0, time |-> 0]

\* the sources of the transfers to wallet among its last 20 transactions
\* (getSignaturesForAddress, then the parsed 'transfer' instructions)
FundingTransfers(wallet) ==
  CASE wallet = "w5" -> <<"f2", "f1", "f2">>
    [] wallet = "w6" -> <<>>
    [] OTHER -> <<"f1">>

\* getSignaturesForAddress(wallet, {limit: 1}): blockTime in seconds of the
\* signature it returns; has = FALSE when it returns none
LastSignature(wallet) ==
  CASE wallet = "w6" -> [has |-> TRUE, blockTime |-> 0]
    [] wallet = "w4" -> [has |-> FALSE, blockTime |-> 0]
    [] OTHER -> [has |-> TRUE, blockTime |-> T0 \div 1000 - 3600]

(***************************************************************************)
(* Sequences                                                               *)
(***************************************************************************)
Range(s) == {s[i] : i \in DOMAIN s}

Min(a, b) == IF a < b THEN a ELSE b

Abs(x) == IF x < 0 THEN -x ELSE x

\* [...new Set(s)]: the first occurrence of every element, in order
Dedupe(s) ==
  SelectSeq([i \in DOMAIN s |-> IF \E j \in 1..(i - 1) : s[j] = s[i]
                                  THEN <<FALSE, s[i]>> ELSE <<TRUE, s[i]>>],
            LAMBDA p : p[1])

DedupeValues(s) == [i \in DOMAIN Dedupe(s) |-> Dedupe(s)[i][2]]

RECURSIVE SumSeq(_)
SumSeq(s) == IF s = <<>> THEN 0 ELSE s[1] + SumSeq(Tail(s))

\* the i-th smallest of the numbers of s (1-based): [...s].sort((a,b) => a-b)
RECURSIVE Insert(_, _)
Insert(x, s) ==
  IF s = <<>> THEN <<x>>
  ELSE IF x < s[1] THEN <<x>> \o s ELSE <<s[1]>> \o Insert(x, Tail(s))

RECURSIVE SortAsc(_)
SortAsc(s) == IF s = <<>> THEN <<>> ELSE Insert(s[Len(s)], SortAsc(SubSeq(s, 1, Len(s) - 1)))

(***************************************************************************)
(* State                                                                   *)
(***************************************************************************)
VARIABLES
  \* the tier query last answered: its input and the two answers
  holdDays, diamondRank, diamondMultiplier,
  \* Date.now()
  now,
  \* BundleDetector.knownBundlers and BundleDetector.walletCache
  knownBundlers, walletCache,
  \* the calls of analyzeTransaction: evals[e] is call slot e
  evals,
  \* index.ts: launches (status, holders counter), holders, buyRecords
  launches, holders, buyRecords,
  \* the POST /api/buy requests: reqs[r] is the handler of request r
  reqs,
  \* a caller of the detector that evaluates the buys of a launch as they
  \* are made: the number of buys it has submitted so far
  submitted,
  \* the last call of calculateGlobalScore: its argument and its answer
  holderHistory, globalScore,
  \* a holder and a reward pool held by a caller of calculateRewards, and
  \* the answers of the calls made since the caller last changed them
  rewardHolder, rewardPool, rewardCalls,
  \* WalletGraphAnalyzer: nodes, edges, adjacencyList (all in insertion
  \* order), and the last query of the graph with its answer
  nodes, edges, adjacencyList, lastQuery

vars == <<holdDays, diamondRank, diamondMultiplier, now, knownBundlers,
          walletCache, evals, launches, holders, buyRecords, reqs, submitted,
          holderHistory, globalScore, rewardHolder, rewardPool, rewardCalls,
          nodes, edges, adjacencyList, lastQuery>>

rankVars == <<holdDays, diamondRank, diamondMultiplier>>

detectorVars == <<knownBundlers, walletCache, evals>>

appVars == <<launches, holders, buyRecords, reqs>>

calcVars == <<holderHistory, globalScore, rewardHolder, rewardPool, rewardCalls>>

graphVars == <<nodes, edges, adjacencyList, lastQuery>>

\* what the detector and the server leave alone
sideVars == <<rankVars, calcVars, graphVars, submitted>>

(***************************************************************************)
(* BundleDetector: the heuristics                                          *)
(***************************************************************************)
Flag(type, severity) == [type |-> type, severity |-> severity]

FlagTypes(flags) == {flags[i].type : i \in DOMAIN flags}

\* tx.transaction.message.accountKeys[0].pubkey.toString()
buyerWalletOf(tx) == tx.buyer

\* recentBuys.filter(b => b.slot === tx.slot && b.wallet !== buyerWallet)
sameBlockBuys(recentBuys, tx) ==
  SelectSeq(recentBuys,
            LAMBDA b : b.slot = tx.slot /\ b.wallet # buyerWalletOf(tx))

WalletsOf(buys) == [i \in DOMAIN buys |-> buys[i].wallet]

\* the most common funding source; the first one counted wins a tie
Occurrences(x, s) == Cardinality({i \in DOMAIN s : s[i] = x})

topSourceOf(fundingSources) ==
  IF fundingSources = <<>> THEN "undefined"
  ELSE LET d == DedupeValues(fundingSources)
           best == CHOOSE i \in DOMAIN d :
                     /\ \A j \in DOMAIN d :
                          Occurrences(d[j], fundingSources)
                            <= Occurrences(d[i], fundingSources)
                     /\ \A j \in 1..(i - 1) :
                          Occurrences(d[j], fundingSources)
                            < Occurrences(d[i], fundingSources)
       IN d[best]

\* rpcOk = FALSE: a call of the connection throws inside the try block
analyzeFundingSources(wallet, otherBuyers, cache, rpcOk) ==
  IF ~rpcOk
    THEN [sharedSource |-> FALSE, source |-> "undefined", relatedCount |-> 0,
          relatedWallets |-> <<>>]
    ELSE LET fundingSources == FundingTransfers(wallet)
             relatedWallets ==
               SelectSeq(otherBuyers,
                         LAMBDA buyer :
                           /\ buyer \in DOMAIN cache
                           /\ \E s \in Range(cache[buyer].fundingSources) :
                                s \in Range(fundingSources))
         IN [sharedSource |-> Len(relatedWallets) > 0,
             source |-> topSourceOf(fundingSources),
             relatedCount |-> Len(relatedWallets),
             relatedWallets |-> relatedWallets]

\* the age in milliseconds (the code divides by MS_PER_HOUR and compares hours);
\* rpcOk = FALSE: getSignaturesForAddress throws, and the catch returns 0
getWalletAge(wallet, clock, rpcOk) ==
  IF ~rpcOk THEN 0
  ELSE IF ~LastSignature(wallet).has THEN 0
  ELSE clock - LastSignature(wallet).blockTime * 1000

\* age < hours, for an age in milliseconds
AgeBelow(ageMs, hours) == ageMs < hours * MS_PER_HOUR

\* failing: the wallets whose age lookup throws
countNewWalletBuyers(buys, maxAgeHours, clock, failing) ==
  LET first == SubSeq(buys, 1, Min(20, Len(buys)))
  IN Cardinality({i \in DOMAIN first :
       AgeBelow(getWalletAge(first[i].wallet, clock, first[i].wallet \notin failing),
                maxAgeHours)})

extractBuyAmount(tx) == tx.pre - tx.post

\* Math.abs(b.amount - buyAmount) / buyAmount < 0.05: division by 0 gives
\* Infinity or NaN (false), a negative buyAmount a quotient <= 0 (true)
WithinFivePercent(amount, buyAmount) ==
  IF buyAmount > 0 THEN 100 * Abs(amount - buyAmount) < 5 * buyAmount
  ELSE buyAmount < 0

similarAmountBuys(recentBuys, buyAmount) ==
  SelectSeq(recentBuys, LAMBDA b : WithinFivePercent(b.amount, buyAmount))

\* a faulty variant: two buys are enough for a pattern
detectTimingPatternFromTwo(buys) ==
  IF Len(buys) < 2 THEN [detected |-> FALSE]
  ELSE LET sorted == SortAsc([i \in DOMAIN buys |-> buys[i].timestamp])
           intervals == [i \in 1..(Len(sorted) - 1) |-> sorted[i + 1] - sorted[i]]
           n == Len(intervals)
           S == SumSeq(intervals)
           Q == SumSeq([i \in DOMAIN intervals |-> intervals[i] * intervals[i]])
       IN [detected |-> S < 60000 * n /\ 100 * (n * Q - S * S) < S * S]

\* stdDev < avgInterval * 0.1 with n intervals of sum S and sum of squares Q:
\* variance = Q/n - (S/n)^2, so the test is 100 * (n*Q - S*S) < S*S
detectTimingPattern(buys) ==
  IF Len(buys) < 5 THEN [detected |-> FALSE]
  ELSE LET sorted == SortAsc([i \in DOMAIN buys |-> buys[i].timestamp])
           intervals == [i \in 1..(Len(sorted) - 1) |-> sorted[i + 1] - sorted[i]]
           n == Len(intervals)
           S == SumSeq(intervals)
           Q == SumSeq([i \in DOMAIN intervals |-> intervals[i] * intervals[i]])
       IN [detected |-> S < 60000 * n /\ 100 * (n * Q - S * S) < S * S]

severityWeights == [critical |-> 40, high |-> 25, medium |-> 15, low |-> 5]

\* a faulty variant: the score is not clamped
calculateConfidenceUnclamped(flags) ==
  IF Len(flags) = 0 THEN 0
  ELSE SumSeq([i \in DOMAIN flags |-> severityWeights[flags[i].severity]])

calculateConfidence(flags) ==
  IF Len(flags) = 0 THEN 0
  ELSE Min(100, SumSeq([i \in DOMAIN flags |-> severityWeights[flags[i].severity]]))

\* a faulty variant: the known_bundler flag does not override the confidence
determineActionNoOverride(confidence, flags) ==
  IF confidence >= 90 THEN "block"
  ELSE IF confidence >= 70 THEN "reduce_rewards"
  ELSE IF confidence >= 50 THEN "delay_rewards"
  ELSE IF confidence >= 30 THEN "flag"
  ELSE "none"

\* a faulty variant: the thresholds are exclusive
determineActionExclusive(confidence, flags) ==
  IF \E i \in DOMAIN flags : flags[i].type = "known_bundler" THEN "block"
  ELSE IF confidence > 90 THEN "block"
  ELSE IF confidence > 70 THEN "reduce_rewards"
  ELSE IF confidence > 50 THEN "delay_rewards"
  ELSE IF confidence > 30 THEN "flag"
  ELSE "none"

determineAction(confidence, flags) ==
  IF \E i \in DOMAIN flags : flags[i].type = "known_bundler" THEN "block"
  ELSE IF confidence >= 90 THEN "block"
  ELSE IF confidence >= 70 THEN "reduce_rewards"
  ELSE IF confidence >= 50 THEN "delay_rewards"
  ELSE IF confidence >= 30 THEN "flag"
  ELSE "none"

NoPenalty == [action |-> "undefined", rewardReductionPercent |-> 0, rewardDelayDays |-> 0]

determinePenalty(action, flags) ==
  CASE action = "block" ->
         [action |-> "block", rewardReductionPercent |-> 0, rewardDelayDays |-> 0]
    [] action = "reduce_rewards" ->
         [action |-> "reduce_rewards",
          rewardReductionPercent |-> BUNDLER_REWARD_REDUCTION_PERCENT,
          rewardDelayDays |-> 0]
    [] action = "delay_rewards" ->
         [action |-> "delay_rewards", rewardReductionPercent |-> 0,
          rewardDelayDays |-> BUNDLER_REWARD_DELAY_DAYS]
    [] OTHER -> NoPenalty

createAnalysis(signature, launchId, isBundled, confidence, flags, action, relatedWallets, fundingSource, penalty) ==
  [transactionSignature |-> signature, launchId |-> launchId,
   isBundled |-> isBundled, confidence |-> confidence, flags |-> flags,
   relatedWallets |-> DedupeValues(relatedWallets),
   fundingSource |-> fundingSource, action |-> action,
   penaltyApplied |-> penalty]

(***************************************************************************)
(* BundleDetector.analyzeTransaction, one call per slot.  The call awaits  *)
(* the connection twice where other calls can run in between: for the      *)
(* transaction (pc "resolving") and for the funding and age lookups        *)
(* (pc "funding").  Between two awaits the code runs without interruption. *)
(* inRegistryWhenChecked and lookupsOk record what the call met: whether   *)
(* line 69 found the buyer in the registry, and whether every funding and  *)
(* age lookup answered; buyerKnownAtStart, whether the registry held the   *)
(* buyer of the transaction when the call was made.                        *)
(***************************************************************************)
EvalIds == {1, 2}

NullTx == getParsedTransaction("")

NoAnalysis == createAnalysis("", "", FALSE, 0, <<>>, "", <<>>, "undefined", NoPenalty)

IdleEval ==
  [pc |-> "idle", signature |-> "", launchId |-> "", recentBuys |-> <<>>,
   tx |-> NullTx, flags |-> <<>>, relatedWallets |-> <<>>,
   inRegistryWhenChecked |-> FALSE, lookupsOk |-> FALSE,
   buyerKnownAtStart |-> FALSE, result |-> NoAnalysis]

\* the call up to its first await
startAnalysis(signature, launchId, recentBuys) ==
  [IdleEval EXCEPT !.pc = "resolving", !.signature = signature,
                   !.launchId = launchId, !.recentBuys = recentBuys,
                   !.buyerKnownAtStart =
                     buyerWalletOf(getParsedTransaction(signature)) \in knownBundlers]

\* a faulty variant: the registry is not consulted
knownBundlerFlagsUnchecked(registry, buyerWallet) == <<>>

\* flag 1, lines 68-75
knownBundlerFlags(registry, buyerWallet) ==
  IF buyerWallet \in registry THEN <<Flag("known_bundler", "critical")>> ELSE <<>>

\* flag 2, lines 77-90: the flags and the wallets added to relatedWallets
sameBlockFlags(recentBuys, tx) ==
  IF Len(sameBlockBuys(recentBuys, tx)) >= SAME_BLOCK_THRESHOLD
    THEN <<Flag("same_block_buys", "high")>> ELSE <<>>

sameBlockRelated(recentBuys, tx) ==
  IF Len(sameBlockBuys(recentBuys, tx)) >= SAME_BLOCK_THRESHOLD
    THEN WalletsOf(sameBlockBuys(recentBuys, tx)) ELSE <<>>

\* a faulty variant: an unresolved transaction is reported for review
resolvedFlagsUnknown(ev, tx, registry) ==
  IF ~tx.found
    THEN [ev EXCEPT !.pc = "done",
                    !.result = createAnalysis(ev.signature, ev.launchId, FALSE, 0,
                                              <<>>, "flag", <<>>, "undefined",
                                              NoPenalty)]
    ELSE [ev EXCEPT !.pc = "funding", !.tx = tx,
                    !.inRegistryWhenChecked = (buyerWalletOf(tx) \in registry),
                    !.flags = knownBundlerFlags(registry, buyerWalletOf(tx))
                                \o sameBlockFlags(ev.recentBuys, tx),
                    !.relatedWallets = sameBlockRelated(ev.recentBuys, tx)]

\* lines 57-90, after getParsedTransaction has answered tx
resolved(ev, tx, registry) ==
  IF ~tx.found
    THEN [ev EXCEPT !.pc = "done",
                    !.result = createAnalysis(ev.signature, ev.launchId, FALSE, 0,
                                              <<>>, "none", <<>>, "undefined",
                                              NoPenalty)]
    ELSE [ev EXCEPT !.pc = "funding", !.tx = tx,
                    !.inRegistryWhenChecked = (buyerWalletOf(tx) \in registry),
                    !.flags = knownBundlerFlags(registry, buyerWalletOf(tx))
                                \o sameBlockFlags(ev.recentBuys, tx),
                    !.relatedWallets = sameBlockRelated(ev.recentBuys, tx)]

\* flags 3 to 6, lines 92-145
fundingFlags(fundingAnalysis) ==
  IF fundingAnalysis.sharedSource
    THEN <<Flag("same_funding_source", "high")>> ELSE <<>>

newWalletFlags(walletAge, newWalletBuyers) ==
  IF AgeBelow(walletAge, 24) /\ newWalletBuyers >= 5
    THEN <<Flag("new_wallet_cluster", "medium")>> ELSE <<>>

similarAmountFlags(recentBuys, buyAmount) ==
  IF Len(similarAmountBuys(recentBuys, buyAmount)) >= 3
    THEN <<Flag("similar_amounts", "medium")>> ELSE <<>>

timingFlags(recentBuys) ==
  IF detectTimingPattern(recentBuys).detected
    THEN <<Flag("timing_pattern", "medium")>> ELSE <<>>

\* a faulty variant: only the buyer is promoted
promoteBuyerOnly(registry, confidence, buyerWallet, relatedWallets) ==
  IF confidence >= 90 THEN registry \cup {buyerWallet} ELSE registry

\* a faulty variant: the registry is replaced by the promoted wallets
promoteReplacing(registry, confidence, buyerWallet, relatedWallets) ==
  IF confidence >= 90 THEN {buyerWallet} \cup Range(relatedWallets) ELSE registry

\* lines 155-159: the registry after an analysis of this confidence
promote(registry, confidence, buyerWallet, relatedWallets) ==
  IF confidence >= 90
    THEN registry \cup {buyerWallet} \cup Range(relatedWallets)
    ELSE registry

\* lines 92-171, after the funding and age lookups have answered
finished(ev, cache, clock, fundingOk, failing) ==
  LET buyerWallet == buyerWalletOf(ev.tx)
      fundingAnalysis ==
        analyzeFundingSources(buyerWallet, WalletsOf(ev.recentBuys), cache, fundingOk)
      walletAge == getWalletAge(buyerWallet, clock, buyerWallet \notin failing)
      newWalletBuyers == countNewWalletBuyers(ev.recentBuys, 24, clock, failing)
      flags == ev.flags \o fundingFlags(fundingAnalysis)
                 \o newWalletFlags(walletAge, newWalletBuyers)
                 \o similarAmountFlags(ev.recentBuys, extractBuyAmount(ev.tx))
                 \o timingFlags(ev.recentBuys)
      relatedWallets == ev.relatedWallets
                          \o (IF fundingAnalysis.sharedSource
                                THEN fundingAnalysis.relatedWallets ELSE <<>>)
      confidence == calculateConfidence(flags)
      isBundled == confidence >= BUNDLE_CONFIDENCE_THRESHOLD
      action == determineAction(confidence, flags)
      penalty == determinePenalty(action, flags)
  IN [ev EXCEPT !.pc = "done", !.flags = flags, !.relatedWallets = relatedWallets,
                !.lookupsOk = (fundingOk /\ failing = {}),
                !.result = createAnalysis(ev.signature, ev.launchId, isBundled,
                                          confidence, flags, action, relatedWallets,
                                          fundingAnalysis.source, penalty)]

\* the await of getParsedTransaction ends: with the transaction or null, or
\* with a rejection, which analyzeTransaction does not catch
EvalResolve(e) ==
  /\ evals[e].pc = "resolving"
  /\ \E rpcOk \in BOOLEAN :
       evals' = [evals EXCEPT ![e] =
                   IF rpcOk
                     THEN resolved(@, getParsedTransaction(@.signature), knownBundlers)
                     ELSE [@ EXCEPT !.pc = "threw"]]
  /\ UNCHANGED <<sideVars, now, knownBundlers, walletCache, appVars>>

\* the lookups end (each one answered or thrown), the call returns
EvalFinish(e) ==
  /\ evals[e].pc = "funding"
  /\ \E fundingOk \in BOOLEAN,
        failing \in {f \in SUBSET (Range(WalletsOf(evals[e].recentBuys))
                                    \cup {buyerWalletOf(evals[e].tx)}) :
                       Cardinality(f) <= MaxFailing} :
       LET ev == finished(evals[e], walletCache, now, fundingOk, failing)
       IN /\ evals' = [evals EXCEPT ![e] = ev]
          /\ knownBundlers' = promote(knownBundlers, ev.result.confidence,
                                      buyerWalletOf(ev.tx), ev.relatedWallets)
  /\ UNCHANGED <<sideVars, now, walletCache, appVars>>

getKnownBundlers == knownBundlers

\* the wallets an operator reports with addKnownBundler
ReportedWallets == {"w1", "w2", "w6"}

addKnownBundler(wallet) ==
  /\ Cardinality(knownBundlers) < MaxManual
  /\ knownBundlers' = knownBundlers \cup {wallet}
  /\ UNCHANGED <<sideVars, now, walletCache, evals, appVars>>

(***************************************************************************)
(* Callers of the detector: evaluate(signature, launchId, recentBuys) with *)
(* a window of buy events of the ledger, in their order.                   *)
(***************************************************************************)
DirectCallers == {1}

BuyEvent(signature, launchId) ==
  LET tx == getParsedTransaction(signature)
  IN [signature |-> signature, wallet |-> tx.buyer,
      amount |-> extractBuyAmount(tx), slot |-> tx.slot,
      timestamp |-> tx.time, launchId |-> launchId]

\* the events of the ledger at the positions of idx, in order
WindowOf(idx, launchId) ==
  LET pos == SelectSeq([i \in DOMAIN ChainSigs |-> i], LAMBDA i : i \in idx)
  IN [k \in DOMAIN pos |-> BuyEvent(ChainSigs[pos[k]], launchId)]

Windows(launchId) ==
  {WindowOf(idx, launchId) :
     idx \in {x \in SUBSET DOMAIN ChainSigs : Cardinality(x) <= MaxWindow}}

AllWindows == [launchId \in LaunchIds |-> Windows(launchId)]

Evaluate(e) ==
  /\ evals[e].pc = "idle"
  /\ \E signature \in Signatures, launchId \in LaunchIds :
       \E recentBuys \in AllWindows[launchId] :
         evals' = [evals EXCEPT ![e] = startAnalysis(signature, launchId, recentBuys)]
  /\ UNCHANGED <<sideVars, now, knownBundlers, walletCache, appVars>>

\* the caller has taken the analysis (or the rejection) of the call
EvalReturn(e) ==
  /\ evals[e].pc \in {"done", "threw"}
  /\ evals' = [evals EXCEPT ![e] = IdleEval]
  /\ UNCHANGED <<sideVars, now, knownBundlers, walletCache, appVars>>

(***************************************************************************)
(* A caller that evaluates every buy of a launch as it is made, against    *)
(* the latest buys up to and including it (as the buy handler builds its   *)
(* window, lines 324-340 of index.ts), without waiting for the evaluation  *)
(* of the buy before.                                                      *)
(***************************************************************************)
\* s.slice(-n)
LastN(s, n) == SubSeq(s, Len(s) - Min(n, Len(s)) + 1, Len(s))

History(n, launchId) == [i \in 1..n |-> BuyEvent(ChainSigs[i], launchId)]

EvaluateNext(e) ==
  /\ evals[e].pc = "idle"
  /\ submitted < Len(ChainSigs)
  /\ submitted' = submitted + 1
  /\ \E launchId \in LaunchIds :
       evals' = [evals EXCEPT ![e] =
                   startAnalysis(ChainSigs[submitted + 1], launchId,
                                 LastN(History(submitted + 1, launchId), MaxWindow))]
  /\ UNCHANGED <<rankVars, calcVars, graphVars, now, knownBundlers, walletCache,
                 appVars>>

(***************************************************************************)
(* A caller with a long history: the buy handler hands evaluate up to 50   *)
(* buys, oldest first (launchBuys.slice(-50), index.ts 340).  The window   *)
(* is a run of buys of one wallet followed by a run of buys of another:    *)
(* "w1", whose last signature is an hour old, and "w6", whose last         *)
(* signature is of 1970.  The buys are a millisecond or 61 seconds apart,  *)
(* each in a slot of its own.                                              *)
(***************************************************************************)
WindowGaps == {1, 61 * MS_PER_SECOND}

EarlierBuy(i, wallet, gap, launchId) ==
  [signature |-> "earlier", wallet |-> wallet, amount |-> 1,
   slot |-> SlotA + 1 + i, timestamp |-> T0 + i * gap, launchId |-> launchId]

RunWindow(firstWallet, firstLen, thenWallet, thenLen, gap, launchId) ==
  [i \in 1..(firstLen + thenLen) |->
     EarlierBuy(i, IF i <= firstLen THEN firstWallet ELSE thenWallet, gap, launchId)]

EvaluateLongWindow(e) ==
  /\ evals[e].pc = "idle"
  /\ \E signature \in {"s1", "s7"}, launchId \in LaunchIds,
        firstLen \in 0..MaxRun, thenLen \in 0..MaxRun, newFirst \in BOOLEAN,
        gap \in WindowGaps :
       LET recentBuys ==
             IF newFirst THEN RunWindow("w1", firstLen, "w6", thenLen, gap, launchId)
                         ELSE RunWindow("w6", firstLen, "w1", thenLen, gap, launchId)
       IN evals' = [evals EXCEPT ![e] = startAnalysis(signature, launchId, recentBuys)]
  /\ UNCHANGED <<sideVars, now, knownBundlers, walletCache, appVars>>

(***************************************************************************)
(* index.ts: the launch endpoints and POST /api/buy.  Request r is served  *)
(* by handler r, whose detector call is evals[r].  A request carries the   *)
(* signature, the wallet and the amount of a transaction; the requests     *)
(* arrive in the order of their transactions, each transaction once, and   *)
(* one request may carry "s0", a signature the ledger does not know.       *)
(***************************************************************************)
TOKENS_PER_SOL == 1000000

RECENT_WINDOW == 50

IdleReq ==
  [pc |-> "idle", launchId |-> "", wallet |-> "", amount |-> 0, txSignature |-> "",
   response |-> [isBundled |-> FALSE, confidence |-> 0, action |-> "",
                 penalty |-> NoPenalty, balance |-> 0, diamondRank |-> "",
                 multiplier |-> 0]]

BuyRequests ==
  {[launchId |-> l, wallet |-> "w3", amount |-> 100, txSignature |-> "s0"] :
     l \in LaunchIds}
    \cup {[launchId |-> l, wallet |-> getParsedTransaction(ChainSigs[i]).buyer,
           amount |-> extractBuyAmount(getParsedTransaction(ChainSigs[i])),
           txSignature |-> ChainSigs[i]] : l \in LaunchIds, i \in DOMAIN ChainSigs}

\* the signatures the next request can carry
NextSignatures(launchBuys) ==
  LET bought == {launchBuys[i].signature : i \in DOMAIN launchBuys}
      k == Cardinality(bought \ {"s0"})
  IN ({"s0"} \ bought) \cup (IF k < Len(ChainSigs) THEN {ChainSigs[k + 1]} ELSE {})

\* POST /api/launch
CreateLaunch(l) ==
  /\ launches[l].status = "none"
  /\ launches' = [launches EXCEPT ![l] = [status |-> "pending", holders |-> 0]]
  /\ holders' = [holders EXCEPT ![l] = <<>>]
  /\ buyRecords' = [buyRecords EXCEPT ![l] = <<>>]
  /\ UNCHANGED <<sideVars, now, detectorVars, reqs>>

\* POST /api/launch/:id/activate
ActivateLaunch(l) ==
  /\ launches[l].status = "pending"
  /\ launches' = [launches EXCEPT ![l].status = "active"]
  /\ UNCHANGED <<sideVars, now, detectorVars, holders, buyRecords, reqs>>

\* lines 323-341: the buy of request q is recorded and handed to the detector
\* with the last 50 buys of its launch
acceptBuy(r, q) ==
  /\ LET buyRecord == [signature |-> q.txSignature, wallet |-> q.wallet,
                       amount |-> q.amount, slot |-> now, timestamp |-> now,
                       launchId |-> q.launchId]
         launchBuys == Append(buyRecords[q.launchId], buyRecord)
     IN /\ buyRecords' = [buyRecords EXCEPT ![q.launchId] = launchBuys]
        /\ evals' = [evals EXCEPT ![r] =
                       startAnalysis(q.txSignature, q.launchId,
                                     LastN(launchBuys, RECENT_WINDOW))]
        /\ reqs' = [reqs EXCEPT ![r] =
                      [IdleReq EXCEPT !.pc = "awaiting",
                                      !.launchId = q.launchId,
                                      !.wallet = q.wallet,
                                      !.amount = q.amount,
                                      !.txSignature = q.txSignature]]
  /\ UNCHANGED <<sideVars, now, knownBundlers, walletCache, launches, holders>>

\* lines 301-341: a valid request on an active launch, up to the await of
\* analyzeTransaction (any other request is answered 400 and changes nothing);
\* the launch takes limit buys
BuyStartUpTo(r, limit) ==
  /\ reqs[r].pc # "awaiting"
  /\ \E q \in BuyRequests :
       /\ launches[q.launchId].status = "active"
       /\ Len(buyRecords[q.launchId]) < limit
       /\ q.txSignature \in NextSignatures(buyRecords[q.launchId])
       /\ acceptBuy(r, q)

BuyStart(r) == BuyStartUpTo(r, MaxBuys)

\* the buys of a client that sends one request at a time
BuyNext(r) == BuyStartUpTo(r, MaxSequentialBuys)

\* a long stream of buys on a launch: requests of wallet w3 for 1 SOL each,
\* with a signature the ledger does not know
StreamRequest(launchId) ==
  [launchId |-> launchId, wallet |-> "w3", amount |-> 1, txSignature |-> "s0"]

BuyStream(r) ==
  /\ reqs[r].pc # "awaiting"
  /\ evals[r].pc = "idle"
  /\ \E launchId \in LaunchIds :
       /\ launches[launchId].status = "active"
       /\ Len(buyRecords[launchId]) < MaxStream
       /\ acceptBuy(r, StreamRequest(launchId))

HolderIndex(launchHolders, wallet) ==
  IF \E i \in DOMAIN launchHolders : launchHolders[i].wallet = wallet
    THEN CHOOSE i \in DOMAIN launchHolders :
           /\ launchHolders[i].wallet = wallet
           /\ \A j \in 1..(i - 1) : launchHolders[j].wallet # wallet
    ELSE 0

\* a faulty variant: the balance of an existing holder is overwritten
upsertHolderOverwriting(launchHolders, launchId, wallet, amount, clock) ==
  LET i == HolderIndex(launchHolders, wallet)
  IN IF i # 0
       THEN [launchHolders EXCEPT ![i].balance = amount * TOKENS_PER_SOL,
                                  ![i].lastActivityAt = clock]
       ELSE Append(launchHolders,
                   [wallet |-> wallet, launchId |-> launchId,
                    balance |-> amount * TOKENS_PER_SOL, costBasis |-> amount,
                    firstBuyAt |-> clock, lastActivityAt |-> clock,
                    holdDurationDays |-> 0, diamondMultiplier |-> 10,
                    diamondRank |-> "Paper"])

\* lines 343-368: the holders of the launch after this buy
upsertHolder(launchHolders, launchId, wallet, amount, clock) ==
  LET i == HolderIndex(launchHolders, wallet)
  IN IF i # 0
       THEN [launchHolders EXCEPT ![i].balance = @ + amount * TOKENS_PER_SOL,
                                  ![i].lastActivityAt = clock]
       ELSE Append(launchHolders,
                   [wallet |-> wallet, launchId |-> launchId,
                    balance |-> amount * TOKENS_PER_SOL, costBasis |-> amount,
                    firstBuyAt |-> clock, lastActivityAt |-> clock,
                    holdDurationDays |-> 0, diamondMultiplier |-> 10,
                    diamondRank |-> "Paper"])

\* lines 343-395: analyzeTransaction has returned its analysis
BuyFinish(r) ==
  /\ reqs[r].pc = "awaiting"
  /\ evals[r].pc = "done"
  /\ LET q == reqs[r]
         bundleAnalysis == evals[r].result
         launchHolders == upsertHolder(holders[q.launchId], q.launchId, q.wallet,
                                       q.amount, now)
         holder == launchHolders[HolderIndex(launchHolders, q.wallet)]
         penalty == IF bundleAnalysis.isBundled
                      THEN bundleAnalysis.penaltyApplied ELSE NoPenalty
     IN /\ holders' = [holders EXCEPT ![q.launchId] = launchHolders]
        /\ launches' = [launches EXCEPT ![q.launchId].holders =
                          IF HolderIndex(holders[q.launchId], q.wallet) = 0
                            THEN @ + 1 ELSE @]
        /\ evals' = [evals EXCEPT ![r] = IdleEval]
        /\ reqs' = [reqs EXCEPT ![r].pc = "responded",
                                ![r].response =
                                  [isBundled |-> bundleAnalysis.isBundled,
                                   confidence |-> bundleAnalysis.confidence,
                                   action |-> bundleAnalysis.action,
                                   penalty |-> penalty,
                                   balance |-> holder.balance,
                                   diamondRank |-> holder.diamondRank,
                                   multiplier |-> holder.diamondMultiplier]]
  /\ UNCHANGED <<sideVars, now, knownBundlers, walletCache, buyRecords>>

\* line 337: analyzeTransaction has rejected; nothing catches it, the handler
\* ends there and the request is answered with an error
BuyFail(r) ==
  /\ reqs[r].pc = "awaiting"
  /\ evals[r].pc = "threw"
  /\ evals' = [evals EXCEPT ![r] = IdleEval]
  /\ reqs' = [reqs EXCEPT ![r].pc = "failed"]
  /\ UNCHANGED <<sideVars, now, knownBundlers, walletCache, launches, holders,
                 buyRecords>>

\* GET /api/detect/:txSignature, lines 483-493: the detector is handed the
\* buys recorded for the launch, up to the await of analyzeTransaction
Detect(e) ==
  /\ evals[e].pc = "idle"
  /\ reqs[e].pc # "awaiting"
  /\ \E txSignature \in {"s0", "s1"}, launchId \in LaunchIds :
       LET launchBuys == buyRecords[launchId]
       IN evals' = [evals EXCEPT ![e] = startAnalysis(txSignature, launchId, launchBuys)]
  /\ UNCHANGED <<sideVars, now, knownBundlers, walletCache, appVars>>

\* lines 495-498: the analysis is sent (a rejection is answered with an error)
DetectReturn(e) ==
  /\ evals[e].pc \in {"done", "threw"}
  /\ reqs[e].pc # "awaiting"
  /\ evals' = [evals EXCEPT ![e] = IdleEval]
  /\ UNCHANGED <<sideVars, now, knownBundlers, walletCache, appVars>>

\* time passes
Tick ==
  /\ now < T0 + MaxTicks
  /\ now' = now + 1
  /\ UNCHANGED <<sideVars, detectorVars, appVars>>

(***************************************************************************)
(* DiamondRewardsCalculator: calculateGlobalScore and calculateRewards.    *)
(* Rewards are whole tokens: for the balances (whole multiples of          *)
(* TOKENS_PER_SOL) and the pools (whole multiples of POOL_UNIT) of the      *)
(* model, balance / 1e9 * remaining * 0.01 is the product of the two       *)
(* quotients below, and the bonuses, taken in tenths, are whole too.       *)
(***************************************************************************)
REWARDS_CLAIM_COOLDOWN_DAYS == 7

POOL_UNIT == 100000

EXAMPLE_POOL == 100000000

\* a faulty variant: a sale at a profit within a week is a quick flip
launchPointsWeekFlip(launch) ==
  (IF launch.holdDays >= 180 THEN 5
   ELSE IF launch.holdDays >= 90 THEN 3
   ELSE IF launch.holdDays >= 30 THEN 1 ELSE 0)
  + (IF launch.heldThroughDip THEN 2 ELSE 0)
  - (IF launch.holdDays < 7 /\ launch.profitLoss > 0 THEN 1 ELSE 0)
  + (IF launch.wasRugged /\ launch.holdDays >= 7 THEN 1 ELSE 0)

\* one launch of a holder history: the points it adds, lines 159-171
launchPoints(launch) ==
  (IF launch.holdDays >= 180 THEN 5
   ELSE IF launch.holdDays >= 90 THEN 3
   ELSE IF launch.holdDays >= 30 THEN 1 ELSE 0)
  + (IF launch.heldThroughDip THEN 2 ELSE 0)
  - (IF launch.holdDays < 1 /\ launch.profitLoss > 0 THEN 1 ELSE 0)
  + (IF launch.wasRugged /\ launch.holdDays >= 7 THEN 1 ELSE 0)

calculateGlobalScore(history) ==
  LET score == SumSeq([i \in DOMAIN history |-> launchPoints(history[i])])
  IN IF score < 0 THEN 0 ELSE score

\* a faulty variant: every call adds what the call before has paid
calculateRewardsAccruing(holder, pool, clock) ==
  LET before == IF rewardCalls = <<>> THEN 0
                ELSE rewardCalls[Len(rewardCalls)].rewards.totalRewards
      baseRewards == (holder.balance \div TOKENS_PER_SOL) * (pool.remaining \div POOL_UNIT)
                       + before
  IN [wallet |-> holder.wallet, launchId |-> holder.launchId,
      baseRewards |-> baseRewards, diamondBonus |-> 0, loyaltyBonus |-> 0,
      totalRewards |-> baseRewards,
      holdMultiplier |-> getMultiplier(holder.holdDurationDays),
      loyaltyMultiplier |-> 10 + holder.globalHolderScore,
      claimable |-> TRUE, nextClaimAt |-> -1]

\* lines 57-97; nextClaimAt -1 is undefined
calculateRewards(holder, pool, clock) ==
  LET baseRewards == (holder.balance \div TOKENS_PER_SOL) * (pool.remaining \div POOL_UNIT)
      holdMultiplier == getMultiplier(holder.holdDurationDays)
      diamondBonus == (baseRewards * (holdMultiplier - 10)) \div 10
      loyaltyMultiplier == 10 + holder.globalHolderScore
      loyaltyBonus == ((baseRewards + diamondBonus) * (loyaltyMultiplier - 10)) \div 10
      totalRewards == baseRewards + diamondBonus + loyaltyBonus
      claimable == \/ holder.rewardsClaimed <= 0
                   \/ clock - holder.lastActivityAt
                        >= REWARDS_CLAIM_COOLDOWN_DAYS * MS_PER_DAY
  IN [wallet |-> holder.wallet, launchId |-> holder.launchId,
      baseRewards |-> baseRewards, diamondBonus |-> diamondBonus,
      loyaltyBonus |-> loyaltyBonus, totalRewards |-> totalRewards,
      holdMultiplier |-> holdMultiplier, loyaltyMultiplier |-> loyaltyMultiplier,
      claimable |-> claimable,
      nextClaimAt |-> IF claimable THEN -1
                      ELSE holder.lastActivityAt
                             + REWARDS_CLAIM_COOLDOWN_DAYS * MS_PER_DAY]

\* the holder histories and the holders and pools that callers hand in
HistoryDays == {0, 5, 30, 200}

Launches ==
  [launchId : LaunchIds, holdDays : HistoryDays, profitLoss : {0, 50},
   wasRugged : BOOLEAN, heldThroughDip : BOOLEAN]

RewardHolders ==
  [wallet : {"w1"}, launchId : LaunchIds,
   balance : {0, 100 * TOKENS_PER_SOL, 250 * TOKENS_PER_SOL},
   holdDurationDays : {0, 7, 90, 180}, globalHolderScore : {0, 4},
   rewardsClaimed : {0, 10}, lastActivityAt : {T0}]

RewardPools ==
  [launchId : LaunchIds, totalPool : {EXAMPLE_POOL}, distributed : {0},
   remaining : {0, EXAMPLE_POOL}]

\* a launch is added to the holder's history and the score is computed again
GlobalScoreQuery ==
  /\ Len(holderHistory) < MaxHistory
  /\ \E launch \in Launches :
       /\ holderHistory' = Append(holderHistory, launch)
       /\ globalScore' = calculateGlobalScore(Append(holderHistory, launch))
  /\ UNCHANGED <<rankVars, graphVars, submitted, now, detectorVars, appVars,
                 rewardHolder, rewardPool, rewardCalls>>

\* the caller builds or changes the holder and the pool it holds
RewardInputs ==
  /\ \E holder \in RewardHolders, pool \in RewardPools :
       /\ rewardHolder' = holder
       /\ rewardPool' = pool
  /\ rewardCalls' = <<>>
  /\ UNCHANGED <<rankVars, graphVars, submitted, now, detectorVars, appVars,
                 holderHistory, globalScore>>

RewardsQuery ==
  /\ Len(rewardCalls) < MaxRewardCalls
  /\ rewardCalls' = Append(rewardCalls,
                           [at |-> now,
                            rewards |-> calculateRewards(rewardHolder, rewardPool, now)])
  /\ UNCHANGED <<rankVars, graphVars, submitted, now, detectorVars, appVars,
                 holderHistory, globalScore, rewardHolder, rewardPool>>

\* a week passes
WeekPasses ==
  /\ now <= T0 + MaxTicks + (MaxWeeks - 1) * 7 * MS_PER_DAY
  /\ now' = now + 7 * MS_PER_DAY
  /\ UNCHANGED <<sideVars, detectorVars, appVars>>

(***************************************************************************)
(* WalletGraphAnalyzer.  nodes and adjacencyList are Maps and the          *)
(* neighbours of an address a Set: each is the sequence of its entries in  *)
(* insertion order, the order in which the code iterates over it.          *)
(***************************************************************************)
Graph == [nodes |-> nodes, edges |-> edges, adjacencyList |-> adjacencyList]

\* Map.get: the position of the entry of address, 0 if there is none
EntryIndex(entries, address) ==
  IF \E i \in DOMAIN entries : entries[i].address = address
    THEN CHOOSE i \in DOMAIN entries : entries[i].address = address
    ELSE 0

\* this.adjacencyList.get(address) || new Set()
neighborsOf(g, address) ==
  IF EntryIndex(g.adjacencyList, address) = 0 THEN <<>>
  ELSE g.adjacencyList[EntryIndex(g.adjacencyList, address)].neighbors

\* if (!this.adjacencyList.has(address)) this.adjacencyList.set(address, new Set())
ensureAdjacency(adjacency, address) ==
  IF EntryIndex(adjacency, address) # 0 THEN adjacency
  ELSE Append(adjacency, [address |-> address, neighbors |-> <<>>])

\* this.adjacencyList.get(from).add(to)
addNeighbor(adjacency, from, to) ==
  [adjacency EXCEPT ![EntryIndex(adjacency, from)].neighbors =
     IF to \in Range(@) THEN @ ELSE Append(@, to)]

addEdge(g, from, to, type, amount, timestamp) ==
  LET ensured == ensureAdjacency(ensureAdjacency(g.adjacencyList, from), to)
  IN [g EXCEPT !.edges = Append(@, [from |-> from, to |-> to, type |-> type,
                                    amount |-> amount, timestamp |-> timestamp]),
               !.adjacencyList = addNeighbor(addNeighbor(ensured, from, to), to, from)]

\* lines 73-75: an edge from every funding source to the wallet
RECURSIVE addSourceEdges(_, _, _, _)
addSourceEdges(g, address, fundingSources, firstSeen) ==
  IF fundingSources = <<>> THEN g
  ELSE addSourceEdges(addEdge(g, Head(fundingSources), address, "funding", 0, firstSeen),
                      address, Tail(fundingSources), firstSeen)

\* lines 77-79: an edge from the wallet to every funding target
RECURSIVE addTargetEdges(_, _, _, _)
addTargetEdges(g, address, fundingTargets, firstSeen) ==
  IF fundingTargets = <<>> THEN g
  ELSE addTargetEdges(addEdge(g, address, Head(fundingTargets), "funding", 0, firstSeen),
                      address, Tail(fundingTargets), firstSeen)

\* a faulty variant: an existing node takes the sources and targets of the
\* call in place of its own
addWalletReplacing(g, address, firstSeen, fundingSources, fundingTargets) ==
  LET i == EntryIndex(g.nodes, address)
      stored == IF i # 0
                  THEN [g.nodes EXCEPT ![i].fundingSources = fundingSources,
                                       ![i].fundingTargets = fundingTargets,
                                       ![i].transactionCount = @ + 1]
                  ELSE Append(g.nodes,
                              [address |-> address, firstSeen |-> firstSeen,
                               transactionCount |-> 1, totalVolume |-> 0,
                               fundingSources |-> fundingSources,
                               fundingTargets |-> fundingTargets,
                               buyTimestamps |-> <<>>])
      listed == [g EXCEPT !.nodes = stored,
                          !.adjacencyList = ensureAdjacency(@, address)]
  IN addTargetEdges(addSourceEdges(listed, address, fundingSources, firstSeen),
                    address, fundingTargets, firstSeen)

addWallet(g, address, firstSeen, fundingSources, fundingTargets) ==
  LET i == EntryIndex(g.nodes, address)
      stored == IF i # 0
                  THEN [g.nodes EXCEPT ![i].fundingSources = @ \o fundingSources,
                                       ![i].fundingTargets = @ \o fundingTargets,
                                       ![i].transactionCount = @ + 1]
                  ELSE Append(g.nodes,
                              [address |-> address, firstSeen |-> firstSeen,
                               transactionCount |-> 1, totalVolume |-> 0,
                               fundingSources |-> fundingSources,
                               fundingTargets |-> fundingTargets,
                               buyTimestamps |-> <<>>])
      listed == [g EXCEPT !.nodes = stored,
                          !.adjacencyList = ensureAdjacency(@, address)]
  IN addTargetEdges(addSourceEdges(listed, address, fundingSources, firstSeen),
                    address, fundingTargets, firstSeen)

recordBuy(g, wallet, amount, timestamp) ==
  LET i == EntryIndex(g.nodes, wallet)
  IN IF i = 0 THEN g
     ELSE [g EXCEPT !.nodes[i].totalVolume = @ + amount,
                    !.nodes[i].buyTimestamps = Append(@, timestamp)]

clear(g) == [nodes |-> <<>>, edges |-> <<>>, adjacencyList |-> <<>>]

\* the loop of bfs: what is left of the queue, the visited set, the cluster
RECURSIVE bfsLoop(_, _, _, _)
bfsLoop(g, queue, visited, cluster) ==
  IF queue = <<>> THEN [cluster |-> cluster, visited |-> visited]
  ELSE LET current == Head(queue)
       IN IF current \in visited THEN bfsLoop(g, Tail(queue), visited, cluster)
          ELSE bfsLoop(g,
                       Tail(queue) \o SelectSeq(neighborsOf(g, current),
                                                LAMBDA n : n \notin visited \cup {current}),
                       visited \cup {current}, Append(cluster, current))

\* a faulty variant: the start and its own neighbours only
bfsOneHop(g, start, visited) ==
  LET cluster == <<start>> \o SelectSeq(neighborsOf(g, start),
                                        LAMBDA n : n \notin visited \cup {start})
  IN [cluster |-> cluster, visited |-> visited \cup Range(cluster)]

bfs(g, start, visited) == bfsLoop(g, <<start>>, visited, <<>>)

\* the nodes of the cluster's wallets that are registered
clusterNodesOf(g, wallets) ==
  LET registered == SelectSeq(wallets, LAMBDA w : EntryIndex(g.nodes, w) # 0)
  IN [i \in DOMAIN registered |-> g.nodes[EntryIndex(g.nodes, registered[i])]]

RECURSIVE Flatten(_)
Flatten(ss) == IF ss = <<>> THEN <<>> ELSE Head(ss) \o Flatten(Tail(ss))

Count(s, x) == Cardinality({i \in DOMAIN s : s[i] = x})

Finding(rule, source, count, points) ==
  [rule |-> rule, source |-> source, count |-> count, points |-> points]

\* lines 168-179
ageFindings(clusterNodes, clock) ==
  LET total == SumSeq([i \in DOMAIN clusterNodes |-> clock - clusterNodes[i].firstSeen])
      n == Len(clusterNodes)
  IN IF total < 24 * MS_PER_HOUR * n THEN <<Finding("very new", "", 0, 30)>>
     ELSE IF total < 168 * MS_PER_HOUR * n THEN <<Finding("new", "", 0, 15)>>
     ELSE <<>>

\* lines 187-200: sourceCount holds, for every source, the number of times it
\* is listed in the fundingSources of the cluster's nodes
fundingFindings(clusterNodes) ==
  LET listed == Flatten([i \in DOMAIN clusterNodes |-> clusterNodes[i].fundingSources])
      qualifying == SelectSeq(DedupeValues(listed), LAMBDA s : Count(listed, s) >= 3)
  IN [i \in DOMAIN qualifying |->
        Finding("same source", qualifying[i], Count(listed, qualifying[i]), 25)]

\* lines 203-212: the intervals between the sorted buy timestamps
buyIntervals(clusterNodes) ==
  LET allBuyTimestamps ==
        SortAsc(Flatten([i \in DOMAIN clusterNodes |-> clusterNodes[i].buyTimestamps]))
  IN IF Len(allBuyTimestamps) >= 3
       THEN [i \in 1..(Len(allBuyTimestamps) - 1) |->
               allBuyTimestamps[i + 1] - allBuyTimestamps[i]]
       ELSE <<>>

\* lines 215-220: avgInterval < 60000
timingFindings(intervals) ==
  IF intervals # <<>> /\ SumSeq(intervals) < 60000 * Len(intervals)
    THEN <<Finding("tight timing", "", 0, 35)>> ELSE <<>>

\* lines 222-228: stdDev < avgInterval * 0.1, squared and multiplied out, in
\* whole seconds (the buy timestamps are whole seconds)
regularityFindings(intervals) ==
  LET seconds == [i \in DOMAIN intervals |-> intervals[i] \div MS_PER_SECOND]
      n == Len(seconds)
      S == SumSeq(seconds)
      Q == SumSeq([i \in DOMAIN seconds |-> seconds[i] * seconds[i]])
  IN IF intervals # <<>> /\ 100 * (n * Q - S * S) < S * S /\ n >= 5
       THEN <<Finding("regular intervals", "", 0, 25)>> ELSE <<>>

\* a faulty variant: ten wallets are a medium cluster
sizeFindingsAboveTen(wallets) ==
  IF Len(wallets) > 10 THEN <<Finding("large cluster", "", Len(wallets), 20)>>
  ELSE IF Len(wallets) >= 5 THEN <<Finding("medium cluster", "", Len(wallets), 10)>>
  ELSE <<>>

\* lines 231-238
sizeFindings(wallets) ==
  IF Len(wallets) >= 10 THEN <<Finding("large cluster", "", Len(wallets), 20)>>
  ELSE IF Len(wallets) >= 5 THEN <<Finding("medium cluster", "", Len(wallets), 10)>>
  ELSE <<>>

\* lines 240-249: the first wallet with the most connections
centerWalletOf(g, wallets) ==
  LET connections(w) == Len(neighborsOf(g, w))
      best == CHOOSE i \in DOMAIN wallets :
                /\ \A j \in DOMAIN wallets : connections(wallets[j]) <= connections(wallets[i])
                /\ \A j \in 1..(i - 1) : connections(wallets[j]) < connections(wallets[i])
  IN wallets[best]

\* reasons holds, for every message the code pushes, the rule it reports; the
\* score is the sum of the points added with the messages, capped at 100
analyzeCluster(g, wallets, clusterId, clock) ==
  LET clusterNodes == clusterNodesOf(g, wallets)
      intervals == buyIntervals(clusterNodes)
      findings == ageFindings(clusterNodes, clock) \o fundingFindings(clusterNodes)
                    \o timingFindings(intervals) \o regularityFindings(intervals)
                    \o sizeFindings(wallets)
  IN [clusterId |-> clusterId,
      wallets |-> wallets,
      centerWallet |-> centerWalletOf(g, wallets),
      totalVolume |-> SumSeq([i \in DOMAIN clusterNodes |-> clusterNodes[i].totalVolume]),
      suspicionScore |-> Min(100, SumSeq([i \in DOMAIN findings |-> findings[i].points])),
      reasons |-> [i \in DOMAIN findings |->
                     [rule |-> findings[i].rule, source |-> findings[i].source,
                      count |-> findings[i].count]]]

\* clusters.sort((a, b) => b.suspicionScore - a.suspicionScore): stable
RECURSIVE sortByScore(_)
sortByScore(clusters) ==
  IF clusters = <<>> THEN <<>>
  ELSE LET sorted == sortByScore(SubSeq(clusters, 1, Len(clusters) - 1))
           last == clusters[Len(clusters)]
           ahead == Cardinality({i \in DOMAIN sorted :
                                   sorted[i].suspicionScore >= last.suspicionScore})
       IN SubSeq(sorted, 1, ahead) \o <<last>> \o SubSeq(sorted, ahead + 1, Len(sorted))

\* lines 118-127: the loop over this.nodes, from its i-th entry on
RECURSIVE findClustersFrom(_, _, _, _, _)
findClustersFrom(g, i, visited, clusters, clock) ==
  IF i > Len(g.nodes) THEN clusters
  ELSE IF g.nodes[i].address \in visited
    THEN findClustersFrom(g, i + 1, visited, clusters, clock)
  ELSE LET found == bfs(g, g.nodes[i].address, visited)
       IN findClustersFrom(g, i + 1, found.visited,
                           IF Len(found.cluster) >= 2
                             THEN Append(clusters,
                                         analyzeCluster(g, found.cluster, Len(clusters), clock))
                             ELSE clusters,
                           clock)

\* a faulty variant: the visited set outlives the call, so that a call right
\* after a call finds every wallet visited
findClustersVisitedKept(g, clock) ==
  IF lastQuery.op = "findClusters" THEN <<>>
  ELSE sortByScore(findClustersFrom(g, 1, {}, <<>>, clock))

findClusters(g, clock) == sortByScore(findClustersFrom(g, 1, {}, <<>>, clock))

\* lines 329-339: the loop of getStats over this.nodes, from its i-th entry
\* on, with the connections counted and the largest cluster met so far
RECURSIVE getStatsFrom(_, _, _, _, _)
getStatsFrom(g, i, visited, totalConnections, largestCluster) ==
  IF i > Len(g.nodes)
    THEN [totalConnections |-> totalConnections, largestCluster |-> largestCluster]
  ELSE LET address == g.nodes[i].address
           connections == totalConnections + Len(neighborsOf(g, address))
       IN IF address \in visited
            THEN getStatsFrom(g, i + 1, visited, connections, largestCluster)
          ELSE LET found == bfs(g, address, visited)
               IN getStatsFrom(g, i + 1, found.visited, connections,
                               IF Len(found.cluster) > largestCluster
                                 THEN Len(found.cluster) ELSE largestCluster)

\* avgConnections is totalConnections / totalNodes (0 for an empty graph)
getStats(g) ==
  LET counted == getStatsFrom(g, 1, {}, 0, 0)
  IN [totalNodes |-> Len(g.nodes), totalEdges |-> Len(g.edges),
      totalConnections |-> counted.totalConnections,
      largestCluster |-> counted.largestCluster]

\* the loop of areConnected
RECURSIVE areConnectedLoop(_, _, _, _)
areConnectedLoop(g, queue, visited, wallet2) ==
  IF queue = <<>> THEN FALSE
  ELSE LET current == Head(queue)
       IN IF current = wallet2 THEN TRUE
          ELSE IF current \in visited
            THEN areConnectedLoop(g, Tail(queue), visited, wallet2)
          ELSE areConnectedLoop(g,
                                Tail(queue) \o SelectSeq(neighborsOf(g, current),
                                                         LAMBDA n : n \notin visited \cup {current}),
                                visited \cup {current}, wallet2)

areConnected(g, wallet1, wallet2) == areConnectedLoop(g, <<wallet1>>, {}, wallet2)

\* the entries findPath queues for the neighbours of an entry
pathEntries(g, entry, visited) ==
  LET unvisited == SelectSeq(neighborsOf(g, entry.wallet),
                             LAMBDA n : n \notin visited \cup {entry.wallet})
  IN [i \in DOMAIN unvisited |->
        [wallet |-> unvisited[i], path |-> Append(entry.path, unvisited[i])]]

\* the loop of findPath; null is the empty sequence
RECURSIVE findPathLoop(_, _, _, _)
findPathLoop(g, queue, visited, wallet2) ==
  IF queue = <<>> THEN <<>>
  ELSE LET entry == Head(queue)
       IN IF entry.wallet = wallet2 THEN entry.path
          ELSE IF entry.wallet \in visited
            THEN findPathLoop(g, Tail(queue), visited, wallet2)
          ELSE findPathLoop(g, Tail(queue) \o pathEntries(g, entry, visited),
                            visited \cup {entry.wallet}, wallet2)

\* the loop with the entry queued last taken first
RECURSIVE findPathLastFirst(_, _, _, _)
findPathLastFirst(g, queue, visited, wallet2) ==
  IF queue = <<>> THEN <<>>
  ELSE LET entry == queue[Len(queue)]
           rest == SubSeq(queue, 1, Len(queue) - 1)
       IN IF entry.wallet = wallet2 THEN entry.path
          ELSE IF entry.wallet \in visited
            THEN findPathLastFirst(g, rest, visited, wallet2)
          ELSE findPathLastFirst(g, rest \o pathEntries(g, entry, visited),
                                 visited \cup {entry.wallet}, wallet2)

\* a faulty variant: depth first
findPathDepthFirst(g, wallet1, wallet2) ==
  findPathLastFirst(g, <<[wallet |-> wallet1, path |-> <<wallet1>>]>>, {}, wallet2)

findPath(g, wallet1, wallet2) ==
  findPathLoop(g, <<[wallet |-> wallet1, path |-> <<wallet1>>]>>, {}, wallet2)

\* the last call on the graph and what it returned: a void call returns
\* nothing; calls tells a call that follows a call of the same operation (2)
\* from a first call (1)
NoStats == [totalNodes |-> 0, totalEdges |-> 0, totalConnections |-> 0,
            largestCluster |-> 0]

VoidCall(op) ==
  [op |-> op, calls |-> 1, at |-> 0, clusters |-> <<>>, connected |-> <<>>,
   paths |-> <<>>, stats |-> NoStats]

\* the calls made on the graph since it was last empty
graphCalls ==
  SumSeq([i \in DOMAIN nodes |-> nodes[i].transactionCount])
    + Cardinality({i \in DOMAIN edges : edges[i].type # "funding"})
    + SumSeq([i \in DOMAIN nodes |-> Len(nodes[i].buyTimestamps)])

buysRecorded == SumSeq([i \in DOMAIN nodes |-> Len(nodes[i].buyTimestamps)])

walletsAdded == SumSeq([i \in DOMAIN nodes |-> nodes[i].transactionCount])

\* the latest buy recorded, T0 before the first
lastBuy ==
  LET all == SortAsc(Flatten([i \in DOMAIN nodes |-> nodes[i].buyTimestamps]))
  IN IF all = <<>> THEN T0 ELSE all[Len(all)]

AddWallet(address, firstSeen, fundingSources, fundingTargets) ==
  /\ LET g == addWallet(Graph, address, firstSeen, fundingSources, fundingTargets)
     IN /\ nodes' = g.nodes
        /\ edges' = g.edges
        /\ adjacencyList' = g.adjacencyList
  /\ lastQuery' = VoidCall("addWallet")
  /\ UNCHANGED <<rankVars, calcVars, submitted, now, detectorVars, appVars>>

RecordBuy(wallet, amount, timestamp) ==
  /\ LET g == recordBuy(Graph, wallet, amount, timestamp)
     IN /\ nodes' = g.nodes
        /\ edges' = g.edges
        /\ adjacencyList' = g.adjacencyList
  /\ lastQuery' = VoidCall("recordBuy")
  /\ UNCHANGED <<rankVars, calcVars, submitted, now, detectorVars, appVars>>

AddEdge(from, to, type, amount, timestamp) ==
  /\ LET g == addEdge(Graph, from, to, type, amount, timestamp)
     IN /\ nodes' = g.nodes
        /\ edges' = g.edges
        /\ adjacencyList' = g.adjacencyList
  /\ lastQuery' = VoidCall("addEdge")
  /\ UNCHANGED <<rankVars, calcVars, submitted, now, detectorVars, appVars>>

Clear ==
  /\ LET g == clear(Graph)
     IN /\ nodes' = g.nodes
        /\ edges' = g.edges
        /\ adjacencyList' = g.adjacencyList
  /\ lastQuery' = VoidCall("clear")
  /\ UNCHANGED <<rankVars, calcVars, submitted, now, detectorVars, appVars>>

FindClusters ==
  /\ lastQuery' = [VoidCall("findClusters") EXCEPT
                     !.calls = IF lastQuery.op = "findClusters" THEN 2 ELSE 1,
                     !.at = now,
                     !.clusters = findClusters(Graph, now)]
  /\ UNCHANGED <<rankVars, calcVars, submitted, now, detectorVars, appVars, nodes,
                 edges, adjacencyList>>

GetStats ==
  /\ lastQuery' = [VoidCall("getStats") EXCEPT !.stats = getStats(Graph)]
  /\ UNCHANGED <<rankVars, calcVars, submitted, now, detectorVars, appVars, nodes,
                 edges, adjacencyList>>

\* areConnected and findPath, called for every pair of addresses
QueryPaths(addresses) ==
  /\ lastQuery' = [VoidCall("findPath") EXCEPT
                     !.connected = [p \in addresses \X addresses |->
                                      areConnected(Graph, p[1], p[2])],
                     !.paths = [p \in addresses \X addresses |->
                                  findPath(Graph, p[1], p[2])]]
  /\ UNCHANGED <<rankVars, calcVars, submitted, now, detectorVars, appVars, nodes,
                 edges, adjacencyList>>

\* the addresses of the graph's callers
GraphAddresses == {"a", "b", "c", "d"}

GraphWallets == {"a", "b"}

\* the funding a call of addWallet reports: none, a source or a target
GraphFundings ==
  {[fundingSources |-> <<>>, fundingTargets |-> <<>>],
   [fundingSources |-> <<"c">>, fundingTargets |-> <<>>],
   [fundingSources |-> <<>>, fundingTargets |-> <<"d">>]}

GraphPairs == {<<"a", "b">>, <<"b", "c">>, <<"a", "c">>, <<"c", "d">>}

\* a first sighting one millisecond less than a day before T0
NearDay == T0 - MS_PER_DAY + 1

TargetNames == <<"t1", "t2", "t3", "t4", "t5", "t6", "t7", "t8">>

FundingTargetsOf(n) == SubSeq(TargetNames, 1, n)

\* the calls of addWallet on the scored graph: every wallet is funded by h;
\* a is an hour old, b and c are 180 hours old and have funded 8 and 4 wallets
ScoringCalls ==
  {[address |-> "a", firstSeen |-> T0 - MS_PER_HOUR, fundingSources |-> <<"h">>,
    fundingTargets |-> <<>>],
   [address |-> "b", firstSeen |-> T0 - 180 * MS_PER_HOUR, fundingSources |-> <<"h">>,
    fundingTargets |-> FundingTargetsOf(8)],
   [address |-> "c", firstSeen |-> T0 - 180 * MS_PER_HOUR, fundingSources |-> <<"h">>,
    fundingTargets |-> FundingTargetsOf(4)]}

BuyGaps == {1 * MS_PER_SECOND, 130 * MS_PER_SECOND}

(***************************************************************************)
(* Tier queries                                                            *)
(***************************************************************************)
RankQuery ==
  /\ \E d \in 0..MaxHoldDays :
       /\ holdDays' = d
       /\ diamondRank' = getDiamondRank(d)
       /\ diamondMultiplier' = getMultiplier(d)
  /\ UNCHANGED <<calcVars, graphVars, submitted, now, detectorVars, appVars>>

(***************************************************************************)
(* Specifications                                                          *)
(***************************************************************************)
Init ==
  /\ holdDays = 0
  /\ diamondRank = getDiamondRank(0)
  /\ diamondMultiplier = getMultiplier(0)
  /\ now = T0
  /\ knownBundlers = {}
  /\ walletCache = [w \in {} |-> [fundingSources |-> <<>>]]
  /\ evals = [e \in EvalIds |-> IdleEval]
  /\ launches = [l \in LaunchIds |-> [status |-> "none", holders |-> 0]]
  /\ holders = [l \in LaunchIds |-> <<>>]
  /\ buyRecords = [l \in LaunchIds |-> <<>>]
  /\ reqs = [r \in EvalIds |-> IdleReq]
  /\ submitted = 0
  /\ holderHistory = <<>>
  /\ globalScore = calculateGlobalScore(<<>>)
  /\ rewardHolder = [wallet |-> "w1", launchId |-> "L1", balance |-> 0,
                     holdDurationDays |-> 0, globalHolderScore |-> 0,
                     rewardsClaimed |-> 0, lastActivityAt |-> T0]
  /\ rewardPool = [launchId |-> "L1", totalPool |-> EXAMPLE_POOL,
                   distributed |-> 0, remaining |-> EXAMPLE_POOL]
  /\ rewardCalls = <<>>
  /\ nodes = <<>>
  /\ edges = <<>>
  /\ adjacencyList = <<>>
  /\ lastQuery = VoidCall("none")

\* the tier mapping alone
NextRank == RankQuery

SpecRank == Init /\ [][NextRank]_vars

\* calculateGlobalScore alone
NextGlobalScore == GlobalScoreQuery

SpecGlobalScore == Init /\ [][NextGlobalScore]_vars

\* calculateRewards under its callers
NextRewards ==
  \/ RewardInputs
  \/ RewardsQuery
  \/ Tick
  \/ WeekPasses

SpecRewards == Init /\ [][NextRewards]_vars

\* the graph under a caller that adds wallets and transfers among four addresses
NextGraph ==
  \/ \E address \in GraphWallets, funding \in GraphFundings :
       /\ graphCalls < MaxGraphCalls
       /\ AddWallet(address, NearDay, funding.fundingSources, funding.fundingTargets)
  \/ \E pair \in GraphPairs :
       /\ graphCalls < MaxGraphCalls
       /\ AddEdge(pair[1], pair[2], "transfer", 1, T0)
  \/ \E wallet \in GraphWallets :
       /\ graphCalls < MaxGraphCalls
       /\ EntryIndex(nodes, wallet) # 0
       /\ RecordBuy(wallet, 1, T0)
  \/ Clear
  \/ FindClusters
  \/ GetStats
  \/ QueryPaths(GraphAddresses)
  \/ Tick

SpecGraph == Init /\ [][NextGraph]_vars

\* the graph under a caller that registers funded wallets and records the
\* buys of one of them, one after the other
NextScoring ==
  \/ \E call \in ScoringCalls :
       /\ walletsAdded < MaxAdds
       /\ AddWallet(call.address, call.firstSeen, call.fundingSources, call.fundingTargets)
  \/ \E gap \in BuyGaps :
       /\ buysRecorded < MaxBuyRecords
       /\ EntryIndex(nodes, "a") # 0
       /\ RecordBuy("a", 1, lastBuy + gap)
  \/ FindClusters

SpecScoring == Init /\ [][NextScoring]_vars

\* the detector and its direct callers
NextDetector ==
  \/ \E e \in DirectCallers : Evaluate(e)
  \/ \E e \in DirectCallers : EvalResolve(e)
  \/ \E e \in DirectCallers : EvalFinish(e)
  \/ \E e \in DirectCallers : EvalReturn(e)
  \/ \E w \in ReportedWallets : addKnownBundler(w)

SpecDetector == Init /\ [][NextDetector]_vars

\* the detector when a lookup of the connection may stay unanswered: the
\* event loop runs the continuation of every await whose promise settles,
\* and a caller takes every result, but no line of analyzeFundingSources
\* (177-253) or of its caller bounds the time getSignaturesForAddress and
\* getParsedTransaction take, so nothing makes the lookups of EvalFinish end
SpecLookups ==
  /\ Init
  /\ [][NextDetector]_vars
  /\ \A e \in DirectCallers : WF_vars(EvalResolve(e)) /\ WF_vars(EvalReturn(e))

\* the detector under callers with windows of the ledger and with histories
\* of up to 2 * MaxRun buys
NextLongWindow ==
  \/ \E e \in DirectCallers : Evaluate(e)
  \/ \E e \in DirectCallers : EvaluateLongWindow(e)
  \/ \E e \in DirectCallers : EvalResolve(e)
  \/ \E e \in DirectCallers : EvalFinish(e)
  \/ \E e \in DirectCallers : EvalReturn(e)

SpecLongWindow == Init /\ [][NextLongWindow]_vars

\* the detector under a caller that does not wait between two buys
NextConcurrent ==
  \/ \E e \in EvalIds : EvaluateNext(e)
  \/ \E e \in EvalIds : EvalResolve(e)
  \/ \E e \in EvalIds : EvalFinish(e)
  \/ \E e \in EvalIds : EvalReturn(e)
  \/ \E w \in Wallets : addKnownBundler(w)

SpecConcurrent == Init /\ [][NextConcurrent]_vars

\* the server under a client that sends one request at a time: a long stream
\* of buys on a launch, and requests of GET /api/detect between them
StreamHandlers == {1}

NextStream ==
  \/ \E l \in LaunchIds : CreateLaunch(l)
  \/ \E l \in LaunchIds : ActivateLaunch(l)
  \/ \E r \in StreamHandlers : BuyStream(r)
  \/ \E r \in StreamHandlers : Detect(r)
  \/ \E r \in StreamHandlers : EvalResolve(r)
  \/ \E r \in StreamHandlers : EvalFinish(r)
  \/ \E r \in StreamHandlers : BuyFinish(r)
  \/ \E r \in StreamHandlers : BuyFail(r)
  \/ \E r \in StreamHandlers : DetectReturn(r)

SpecStream == Init /\ [][NextStream]_vars

\* the server under a client that sends the buys of the ledger one at a time
NextSequential ==
  \/ \E l \in LaunchIds : CreateLaunch(l)
  \/ \E l \in LaunchIds : ActivateLaunch(l)
  \/ \E r \in StreamHandlers : BuyNext(r)
  \/ \E r \in StreamHandlers : EvalResolve(r)
  \/ \E r \in StreamHandlers : EvalFinish(r)
  \/ \E r \in StreamHandlers : BuyFinish(r)
  \/ \E r \in StreamHandlers : BuyFail(r)
  \/ Tick

SpecSequential == Init /\ [][NextSequential]_vars

\* the server under concurrent buy requests, at one time of the clock
NextBuys ==
  \/ \E l \in LaunchIds : CreateLaunch(l)
  \/ \E l \in LaunchIds : ActivateLaunch(l)
  \/ \E r \in EvalIds : BuyStart(r)
  \/ \E e \in EvalIds : EvalResolve(e)
  \/ \E e \in EvalIds : EvalFinish(e)
  \/ \E r \in EvalIds : BuyFinish(r)
  \/ \E r \in EvalIds : BuyFail(r)

SpecBuys == Init /\ [][NextBuys]_vars

\* the server: the launch and buy endpoints over the detector (index.ts
\* makes no call of addKnownBundler)
Next ==
  \/ \E l \in LaunchIds : CreateLaunch(l)
  \/ \E l \in LaunchIds : ActivateLaunch(l)
  \/ \E r \in EvalIds : BuyStart(r)
  \/ \E e \in EvalIds : EvalResolve(e)
  \/ \E e \in EvalIds : EvalFinish(e)
  \/ \E r \in EvalIds : BuyFinish(r)
  \/ \E r \in EvalIds : BuyFail(r)
  \/ Tick
  \/ WeekPasses

Spec == Init /\ [][Next]_vars

(***************************************************************************)
(* Claims                                                                  *)
(***************************************************************************)
Done(e) == evals[e].pc = "done"

Resolved(e) == Done(e) /\ evals[e].tx.found

\* C1: for every hold duration d, getDiamondRank(d) is Diamond iff d >= 180,
\* Platinum iff 90 <= d < 180, Gold iff 60 <= d < 90, Silver iff 30 <= d < 60,
\* Bronze iff 7 <= d < 30 and Paper iff d < 7.
C1_RankThresholds ==
  /\ diamondRank = "Diamond" <=> holdDays >= 180
  /\ diamondRank = "Platinum" <=> (90 <= holdDays /\ holdDays < 180)
  /\ diamondRank = "Gold" <=> (60 <= holdDays /\ holdDays < 90)
  /\ diamondRank = "Silver" <=> (30 <= holdDays /\ holdDays < 60)
  /\ diamondRank = "Bronze" <=> (7 <= holdDays /\ holdDays < 30)
  /\ diamondRank = "Paper" <=> holdDays < 7

\* C2: every evaluation whose transaction resolves and whose buyer is in the
\* known-bundler registry when it is checked returns action block, whatever
\* the aggregate confidence is.
C2_KnownBundlerBlocks ==
  \A e \in EvalIds :
    (Resolved(e) /\ evals[e].inRegistryWhenChecked)
      => evals[e].result.action = "block"

\* a known bundler whose aggregate confidence alone would not block
C2_Witness ==
  \E e \in EvalIds :
    /\ Resolved(e) /\ evals[e].inRegistryWhenChecked
    /\ evals[e].result.confidence < 90
    /\ evals[e].result.action = "block"

SeverityCount(flags, severity) ==
  Cardinality({i \in DOMAIN flags : flags[i].severity = severity})

WeightSum(flags) ==
  40 * SeverityCount(flags, "critical") + 25 * SeverityCount(flags, "high")
    + 15 * SeverityCount(flags, "medium") + 5 * SeverityCount(flags, "low")

C4_BuyAlwaysCompletes ==
  [][\A r \in EvalIds :
       (reqs[r].pc = "awaiting" /\ reqs'[r].pc # "awaiting")
         => LET q == reqs[r]
                before == holders[q.launchId]
                after == holders'[q.launchId]
                i == HolderIndex(before, q.wallet)
                j == HolderIndex(after, q.wallet)
            IN /\ \E k \in DOMAIN buyRecords'[q.launchId] :
                    buyRecords'[q.launchId][k].signature = q.txSignature
               /\ j # 0
               /\ i # 0 => after[j].balance > before[i].balance]_vars

\* the buy of evaluation a is in the window of evaluation b
InWindow(a, b) ==
  \E i \in DOMAIN evals[b].recentBuys :
    evals[b].recentBuys[i].signature = evals[a].signature

\* the wallets the analysis of evaluation e has put into the registry
Promoted(e) ==
  IF evals[e].result.confidence >= 90
    THEN {buyerWalletOf(evals[e].tx)} \cup Range(evals[e].result.relatedWallets)
    ELSE {}

SubmittedAt(e) ==
  CHOOSE i \in DOMAIN ChainSigs : ChainSigs[i] = evals[e].signature

\* C5: two evaluations of buys of one launch that are in flight together end
\* as in some serial order: the two windows do not both lack the other buy,
\* and the evaluation that is later by the windows has seen the registry
\* promotions of the earlier one.
C5_ConcurrentEvaluationsSerialized ==
  \A a, b \in EvalIds :
    (/\ a # b /\ Resolved(a) /\ Resolved(b)
     /\ evals[a].launchId = evals[b].launchId
     /\ SubmittedAt(a) < SubmittedAt(b)
     /\ SubmittedAt(b) - SubmittedAt(a) < MaxWindow)
      => /\ InWindow(a, b) \/ InWindow(b, a)
         /\ (InWindow(a, b) /\ ~InWindow(b, a))
              => (buyerWalletOf(evals[b].tx) \in Promoted(a)
                    => evals[b].inRegistryWhenChecked)

\* 5 distinct wallets (the buyer and 4 of the window) buy in the slot of the
\* transaction with amounts within 2% of its amount, all funded from one
\* address; the buyer is no known bundler and every lookup answers
FiveWalletBundle(e) ==
  LET ev == evals[e]
      buyer == buyerWalletOf(ev.tx)
      others == Range(WalletsOf(ev.recentBuys)) \ {buyer}
  IN /\ Resolved(e)
     /\ ~ev.inRegistryWhenChecked
     /\ ev.lookupsOk
     /\ Cardinality(others) >= 4
     /\ \A i \in DOMAIN ev.recentBuys :
          /\ ev.recentBuys[i].slot = ev.tx.slot
          /\ 100 * Abs(ev.recentBuys[i].amount - extractBuyAmount(ev.tx))
               <= 2 * extractBuyAmount(ev.tx)
     /\ \E source \in Range(FundingTransfers(buyer)) :
          \A w \in others : source \in Range(FundingTransfers(w))

\* C6: evaluating one of 5 same-slot, similar-amount, commonly funded buys
\* against a window holding the others yields flags that include
\* same_block_buys, same_funding_source and similar_amounts, a confidence
\* >= 65 and an action in {delay_rewards, reduce_rewards}.
C6_FiveWalletBundleFlagged ==
  \A e \in EvalIds :
    FiveWalletBundle(e) =>
      /\ {"same_block_buys", "same_funding_source", "similar_amounts"}
           \subseteq FlagTypes(evals[e].result.flags)
      /\ evals[e].result.confidence >= 65
      /\ evals[e].result.action \in {"delay_rewards", "reduce_rewards"}

\* C7: if the resolver answers not-found, evaluate returns an analysis with
\* confidence 0, isBundled false, no flags, no related wallets, action none
\* and no penalty, and leaves the known-bundler registry unchanged.
C7_UnresolvedIsNoOp ==
  [][\A e \in EvalIds :
       (/\ evals[e].pc = "resolving"
        /\ evals'[e].pc \notin {"resolving", "threw"}
        /\ ~getParsedTransaction(evals[e].signature).found)
         => /\ evals'[e].pc = "done"
            /\ evals'[e].result.confidence = 0
            /\ ~evals'[e].result.isBundled
            /\ evals'[e].result.flags = <<>>
            /\ evals'[e].result.relatedWallets = <<>>
            /\ evals'[e].result.action = "none"
            /\ evals'[e].result.penaltyApplied = NoPenalty
            /\ evals'[e].result.transactionSignature = evals[e].signature
            /\ knownBundlers' = knownBundlers]_vars

\* an unresolved evaluation has returned while the registry holds a wallet
C7_Witness ==
  \E e \in EvalIds :
    /\ Done(e) /\ ~evals[e].tx.found
    /\ evals[e].signature = "s0"
    /\ knownBundlers # {}

ActionOf(confidence) ==
  CASE confidence >= 90 -> "block"
    [] confidence >= 70 /\ confidence < 90 -> "reduce_rewards"
    [] confidence >= 50 /\ confidence < 70 -> "delay_rewards"
    [] confidence >= 30 /\ confidence < 50 -> "flag"
    [] confidence < 30 -> "none"

\* C8: when no known_bundler flag is present, the action returned is block iff
\* confidence >= 90, reduce_rewards iff 70 <= confidence < 90, delay_rewards
\* iff 50 <= confidence < 70, flag iff 30 <= confidence < 50 and none iff
\* confidence < 30: in every analysis returned, and for every confidence
\* 0..100 that determineAction can be given with such flags.
C8_ActionByConfidence ==
  /\ \A e \in EvalIds :
       (Done(e) /\ "known_bundler" \notin FlagTypes(evals[e].result.flags))
         => evals[e].result.action = ActionOf(evals[e].result.confidence)
  /\ \A c \in 0..100 :
       determineAction(c, <<Flag("same_block_buys", "high")>>) = ActionOf(c)

\* an analysis without known_bundler flag at the isBundled threshold
C8_Witness ==
  \E e \in EvalIds :
    /\ Resolved(e)
    /\ "known_bundler" \notin FlagTypes(evals[e].result.flags)
    /\ evals[e].result.confidence = 70
    /\ evals[e].result.action = "reduce_rewards"

\* C9: after an evaluation that returns confidence >= 90 the buyer and every
\* wallet of its relatedWallets are in the registry; an evaluation that
\* returns confidence < 90 adds no wallet to the registry.
C9_PromotionAtNinety ==
  [][\A e \in EvalIds :
       (evals[e].pc # "done" /\ evals'[e].pc = "done")
         => /\ evals'[e].result.confidence >= 90
                 => ({buyerWalletOf(evals'[e].tx)}
                       \cup Range(evals'[e].result.relatedWallets))
                      \subseteq knownBundlers'
            /\ evals'[e].result.confidence < 90
                 => knownBundlers' = knownBundlers]_vars

\* an analysis of confidence >= 90 whose related wallets are in the registry
C9_Witness ==
  \E e \in EvalIds :
    /\ Resolved(e)
    /\ evals[e].result.confidence >= 90
    /\ Len(evals[e].result.relatedWallets) >= 3
    /\ Range(evals[e].result.relatedWallets) \subseteq knownBundlers

RankOrder(rank) ==
  CASE rank = "Paper" -> 0
    [] rank = "Bronze" -> 1
    [] rank = "Silver" -> 2
    [] rank = "Gold" -> 3
    [] rank = "Platinum" -> 4
    [] rank = "Diamond" -> 5

\* C18: for all hold durations d1 <= d2, getDiamondRank(d1) is not a higher
\* rank than getDiamondRank(d2) in the order Paper < Bronze < Silver < Gold <
\* Platinum < Diamond and getMultiplier(d1) <= getMultiplier(d2); a query of
\* the same duration gives the same answers.
C18_TiersMonotone ==
  [][/\ holdDays <= holdDays'
          => /\ RankOrder(diamondRank) <= RankOrder(diamondRank')
             /\ diamondMultiplier <= diamondMultiplier'
     /\ holdDays = holdDays'
          => /\ diamondRank' = diamondRank
             /\ diamondMultiplier' = diamondMultiplier]_vars

\* the longest duration has been queried: the highest multiplier
C18_Witness ==
  /\ holdDays = MaxHoldDays
  /\ diamondMultiplier = MULTIPLIERS.DIAMOND.multiplier
  /\ RankOrder(diamondRank) >= RankOrder(getDiamondRank(MaxHoldDays - 1))

ExampleHistory ==
  <<[launchId |-> "L1", holdDays |-> 200, profitLoss |-> 0, wasRugged |-> FALSE,
     heldThroughDip |-> FALSE],
    [launchId |-> "L1", holdDays |-> 5, profitLoss |-> 50, wasRugged |-> FALSE,
     heldThroughDip |-> FALSE]>>

\* C19 as stated: calculateGlobalScore of the history [a launch held 200
\* days, a launch held 5 days with profitLoss 50] returns 4.
C19_ExampleScoresFour ==
  holderHistory = ExampleHistory => globalScore = 4

\* C19 amended: that history scores 5, the 5 points of the first launch: the
\* second launch, held 5 days, is no quick flip; the same history with the
\* second launch held 0 days scores 4.
C19_ExampleScoresFive ==
  /\ holderHistory = ExampleHistory => globalScore = 5
  /\ holderHistory = [ExampleHistory EXCEPT ![2].holdDays = 0] => globalScore = 4

\* the example history has been scored
C19_Witness ==
  /\ holderHistory = ExampleHistory
  /\ globalScore = 5

C17_BuyReportsCurrentTier ==
  [][\A r \in EvalIds :
       reqs[r].pc = "awaiting" /\ reqs'[r].pc = "responded"
         => LET launchHolders == holders'[reqs[r].launchId]
                holder == launchHolders[HolderIndex(launchHolders, reqs[r].wallet)]
                days == (now - holder.firstBuyAt) \div MS_PER_DAY
            IN /\ reqs'[r].response.diamondRank = getDiamondRank(days)
               /\ reqs'[r].response.multiplier = getMultiplier(days)]_vars

\* every element of a list is in the other list at least as many times
Keeps(before, after) == \A x \in Range(before) : Count(after, x) >= Count(before, x)

\* every node is still there, with no smaller count and no funding lost
NodesKept ==
  \A i \in DOMAIN nodes :
    LET j == EntryIndex(nodes', nodes[i].address)
    IN /\ j # 0
       /\ nodes'[j].transactionCount >= nodes[i].transactionCount
       /\ Keeps(nodes[i].fundingSources, nodes'[j].fundingSources)
       /\ Keeps(nodes[i].fundingTargets, nodes'[j].fundingTargets)

Known ==
  {nodes[i].address : i \in DOMAIN nodes}
    \cup {adjacencyList[i].address : i \in DOMAIN adjacencyList}
    \cup UNION {Range(adjacencyList[i].neighbors) : i \in DOMAIN adjacencyList}

\* the undirected adjacency relation
Adjacent(x, y) ==
  \/ y \in Range(neighborsOf(Graph, x))
  \/ x \in Range(neighborsOf(Graph, y))

\* the addresses within k edges of x
RECURSIVE Within(_, _)
Within(x, k) ==
  IF k = 0 THEN {x}
  ELSE LET inner == Within(x, k - 1)
       IN inner \cup {y \in Known : \E w \in inner : Adjacent(w, y)}

\* the connected component of x
Component(x) == Within(x, Cardinality(Known))

MemberSets(clusters) == {Range(clusters[i].wallets) : i \in DOMAIN clusters}

\* C12: findClusters returns exactly the connected components, of at least 2
\* members, of the registered wallets: every cluster is a whole component,
\* none is missing, no wallet is in two clusters or twice in one.
C12_ClustersAreComponents ==
  lastQuery.op = "findClusters"
    => /\ MemberSets(lastQuery.clusters)
            = {c \in {Component(nodes[i].address) : i \in DOMAIN nodes} :
                 Cardinality(c) >= 2}
       /\ \A i, j \in DOMAIN lastQuery.clusters :
            i # j => Range(lastQuery.clusters[i].wallets)
                       \cap Range(lastQuery.clusters[j].wallets) = {}
       /\ \A i \in DOMAIN lastQuery.clusters :
            Len(lastQuery.clusters[i].wallets)
              = Cardinality(Range(lastQuery.clusters[i].wallets))

\* a cluster that reaches over an unregistered address, and a registered
\* wallet left out because it is alone
C12_Witness ==
  /\ lastQuery.op = "findClusters"
  /\ Len(lastQuery.clusters) = 1
  /\ Len(lastQuery.clusters[1].wallets) >= 3
  /\ \E i \in DOMAIN nodes : nodes[i].address \notin Range(lastQuery.clusters[1].wallets)

Distance(x, y) ==
  CHOOSE k \in 0..Cardinality(Known) :
    /\ y \in Within(x, k)
    /\ k = 0 \/ y \notin Within(x, k - 1)

\* C14: for all addresses a and b, findPath(a, b) is null iff areConnected(a, b)
\* is false; a path starts at a, ends at b, goes from neighbour to neighbour
\* and has as many edges as the shortest distance from a to b.
C14_PathIsShortest ==
  lastQuery.op = "findPath"
    => \A p \in DOMAIN lastQuery.paths :
         LET path == lastQuery.paths[p]
         IN /\ path = <<>> <=> ~lastQuery.connected[p]
            /\ path # <<>>
                 => /\ path[1] = p[1]
                    /\ path[Len(path)] = p[2]
                    /\ \A i \in 1..(Len(path) - 1) : Adjacent(path[i], path[i + 1])
                    /\ Len(path) - 1 = Distance(p[1], p[2])

\* a direct path between two addresses that a third one also joins, and a
\* pair without a path
C14_Witness ==
  /\ lastQuery.op = "findPath"
  /\ \E p \in DOMAIN lastQuery.paths : lastQuery.paths[p] = <<>>
  /\ \E p \in DOMAIN lastQuery.paths :
       /\ Len(lastQuery.paths[p]) = 2
       /\ \E z \in Known \ {p[1], p[2]} : Adjacent(p[1], z) /\ Adjacent(z, p[2])

\* the registered members of a cluster, in the order of this.nodes
MembersOf(cluster) ==
  SelectSeq(nodes, LAMBDA n : n.address \in Range(cluster.wallets))

AgePoints(members, clock) ==
  LET total == SumSeq([i \in DOMAIN members |-> clock - members[i].firstSeen])
  IN IF total < 24 * MS_PER_HOUR * Len(members) THEN 30
     ELSE IF total < 168 * MS_PER_HOUR * Len(members) THEN 15 ELSE 0

\* 25 for every source listed at least 3 times among the members' sources
FundingPoints(members) ==
  LET listed == Flatten([i \in DOMAIN members |-> members[i].fundingSources])
  IN 25 * Cardinality({s \in Range(listed) : Count(listed, s) >= 3})

BuyTimesOf(members) ==
  SortAsc(Flatten([i \in DOMAIN members |-> members[i].buyTimestamps]))

\* the mean interval is (last - first) / (count - 1)
TimingPoints(times) ==
  IF Len(times) >= 3 /\ times[Len(times)] - times[1] < 60000 * (Len(times) - 1)
    THEN 35 ELSE 0

\* the variance is the mean of the squared distances from the mean: with n
\* intervals x of sum S it is under (S / n / 10)^2 iff the sum of the
\* (n * x - S)^2, times 100, is under n * S^2; in seconds
RegularityPoints(times) ==
  LET n == Len(times) - 1
      x == [i \in 1..n |-> (times[i + 1] - times[i]) \div MS_PER_SECOND]
      S == SumSeq(x)
  IN IF n >= 5 /\ 100 * SumSeq([i \in 1..n |-> (n * x[i] - S) * (n * x[i] - S)]) < n * S * S
       THEN 25 ELSE 0

SizePoints(cluster) ==
  IF Len(cluster.wallets) >= 10 THEN 20
  ELSE IF Len(cluster.wallets) >= 5 THEN 10 ELSE 0

C16_ThreeDistinctMembers ==
  lastQuery.op = "findClusters"
    => \A i \in DOMAIN lastQuery.clusters :
         LET cluster == lastQuery.clusters[i]
             members == MembersOf(cluster)
             having(s) == {m \in DOMAIN members : s \in Range(members[m].fundingSources)}
         IN \A s \in UNION {Range(members[m].fundingSources) : m \in DOMAIN members} :
              (\E r \in DOMAIN cluster.reasons :
                 /\ cluster.reasons[r].rule = "same source"
                 /\ cluster.reasons[r].source = s)
                <=> Cardinality(having(s)) >= 3

\* the multiplier of the tier a rank names (tenths)
MultiplierOfRank(rank) ==
  CASE rank = "Paper" -> MULTIPLIERS.PAPER.multiplier
    [] rank = "Bronze" -> MULTIPLIERS.BRONZE.multiplier
    [] rank = "Silver" -> MULTIPLIERS.SILVER.multiplier
    [] rank = "Gold" -> MULTIPLIERS.GOLD.multiplier
    [] rank = "Platinum" -> MULTIPLIERS.PLATINUM.multiplier
    [] rank = "Diamond" -> MULTIPLIERS.DIAMOND.multiplier

\* C21: for every hold duration d, getMultiplier(d) is the multiplier of the
\* tier named by getDiamondRank(d) (Paper 1.0, Bronze 1.5, Silver 2.0,
\* Gold 2.5, Platinum 3.0, Diamond 3.5): the rank and the multiplier of a
\* holder always belong to the same tier.
C21_RankAndMultiplierSameTier ==
  diamondMultiplier = MultiplierOfRank(diamondRank)

\* C22: if the funding lookup fails or never responds, evaluate still
\* returns an analysis: every call that has reached the funding lookup
\* returns an analysis, and when the lookup did not answer the analysis
\* carries no same_funding_source flag.
C22_ReturnsDespiteFundingLookup ==
  \A e \in DirectCallers :
    (evals[e].pc = "funding")
      ~> (/\ Done(e)
          /\ ~evals[e].lookupsOk
               => \A i \in DOMAIN evals[e].result.flags :
                    evals[e].result.flags[i].type # "same_funding_source")

\* the types of the flags of the analysis call e returned
FlagTypesOf(e) == FlagTypes(evals[e].result.flags)

\* the buys of the window other than the evaluated one, in its slot
OtherBuysInSlot(e) ==
  {i \in DOMAIN evals[e].recentBuys :
     /\ evals[e].recentBuys[i].signature # evals[e].signature
     /\ evals[e].recentBuys[i].slot = evals[e].tx.slot}

\* C23: evaluate emits the same_block_buys flag iff at least 3 buys of
\* recentBuys other than the evaluated buy have the slot of the evaluated
\* transaction, whichever wallets made them.
C23_SameBlockCountsOtherBuys ==
  \A e \in DirectCallers :
    Resolved(e)
      => ("same_block_buys" \in FlagTypesOf(e)
            <=> Cardinality(OtherBuysInSlot(e)) >= SAME_BLOCK_THRESHOLD)

\* the age of an account on the ledger, in milliseconds
AccountAge(wallet) ==
  IF LastSignature(wallet).has THEN now - LastSignature(wallet).blockTime * 1000
  ELSE 0

\* the buys among the 20 most recent of the window whose buyer is under a day old
RecentNewBuyers(e) ==
  LET last == LastN(evals[e].recentBuys, 20)
  IN {i \in DOMAIN last : AgeBelow(AccountAge(last[i].wallet), 24)}

\* C24: evaluate emits the new_wallet_cluster flag iff the buyer's account
\* age is below 24 hours and at least 5 of the 20 most recent buyers in
\* recentBuys have an account age below 24 hours (stated for the
\* evaluations all of whose lookups answered).
C24_NewWalletClusterOfLastTwenty ==
  \A e \in DirectCallers :
    (Resolved(e) /\ evals[e].lookupsOk)
      => ("new_wallet_cluster" \in FlagTypesOf(e)
            <=> /\ AgeBelow(AccountAge(buyerWalletOf(evals[e].tx)), 24)
                /\ Cardinality(RecentNewBuyers(e)) >= 5)

\* the intervals between the buys of a window in the order of their timestamps
IntervalsOf(buys) ==
  LET sorted == SortAsc([i \in DOMAIN buys |-> buys[i].timestamp])
  IN [i \in 1..(Len(buys) - 1) |-> sorted[i + 1] - sorted[i]]

\* mean below 60 seconds and population standard deviation below a tenth of the
\* mean, for n >= 1 intervals of sum S: the deviations from the mean, times n,
\* are n * x - S, and sigma < mean / 10 iff 100 * Sum((n*x - S)^2) / n < S^2
RegularCadence(intervals) ==
  LET n == Len(intervals)
      S == SumSeq(intervals)
      D == SumSeq([i \in DOMAIN intervals |-> (n * intervals[i] - S) * (n * intervals[i] - S)])
  IN /\ S < 60 * MS_PER_SECOND * n
     /\ 100 * (D \div n) < S * S

\* C25 as stated: evaluate emits the timing_pattern flag iff, over the
\* inter-arrival intervals of recentBuys sorted by timestamp, the population
\* standard deviation is below 10% of the mean interval and the mean interval
\* is below 60 seconds, for every window that has at least one interval.
C25_TimingOfAnyWindow ==
  \A e \in DirectCallers :
    (Resolved(e) /\ Len(evals[e].recentBuys) >= 2)
      => ("timing_pattern" \in FlagTypesOf(e)
            <=> RegularCadence(IntervalsOf(evals[e].recentBuys)))

\* C25: evaluate emits the timing_pattern flag iff recentBuys holds at least 5
\* buys and, over their inter-arrival intervals sorted by timestamp, the
\* population standard deviation is below 10% of the mean interval and the
\* mean interval is below 60 seconds.
C25_TimingOfFiveBuys ==
  \A e \in DirectCallers :
    Resolved(e)
      => ("timing_pattern" \in FlagTypesOf(e)
            <=> /\ Len(evals[e].recentBuys) >= 5
                /\ RegularCadence(IntervalsOf(evals[e].recentBuys)))

\* a window of at least 5 buys at a regular cadence under a minute, flagged
C25_Witness ==
  \E e \in DirectCallers :
    /\ Resolved(e)
    /\ Len(evals[e].recentBuys) >= 5
    /\ RegularCadence(IntervalsOf(evals[e].recentBuys))
    /\ "timing_pattern" \in FlagTypesOf(e)

\* C26: after any sequence of buys on a launch, the recent-history window
\* kept for that launch and handed to evaluate holds at most 50 buy events,
\* the most recent ones in arrival order; older events are evicted.
C26_WindowAtMostFifty ==
  /\ \A l \in LaunchIds : Len(buyRecords[l]) <= RECENT_WINDOW
  /\ \A e \in EvalIds :
       evals[e].pc # "idle" => Len(evals[e].recentBuys) <= RECENT_WINDOW

\* the penalty that mirrors an action
Mirrors(penalty, action) ==
  CASE action = "block" -> penalty.action = "block"
    [] action = "reduce_rewards" ->
         /\ penalty.action = "reduce_rewards"
         /\ penalty.rewardReductionPercent = 50
    [] action = "delay_rewards" ->
         /\ penalty.action = "delay_rewards"
         /\ penalty.rewardDelayDays = 30
    [] OTHER -> penalty = NoPenalty

\* C27: whenever the action returned for a buy is delay_rewards,
\* reduce_rewards or block, the buy response reports the matching non-null
\* penalty (30-day delay, 50% reduction, or block); the reported penalty is
\* null only when the action is none or flag.
C27_PenaltyMirrorsAction ==
  \A r \in EvalIds :
    reqs[r].pc = "responded"
      => /\ reqs[r].response.action \in {"delay_rewards", "reduce_rewards", "block"}
              => Mirrors(reqs[r].response.penalty, reqs[r].response.action)
         /\ reqs[r].response.penalty = NoPenalty
              => reqs[r].response.action \in {"none", "flag"}

\* C28: once an evaluation has promoted a wallet into the known-bundler
\* registry (as buyer or as related wallet of a confidence >= 90 analysis),
\* every evaluation that starts afterwards for a resolved transaction bought
\* by that wallet returns action block with a known_bundler flag: a promoted
\* wallet is in the registry, and every evaluation made while the registry
\* holds the buyer of its transaction returns block with the flag.
C28_PromotedWalletBlocked ==
  /\ \A e \in EvalIds : Done(e) => Promoted(e) \subseteq knownBundlers
  /\ \A e \in EvalIds :
       (Resolved(e) /\ evals[e].buyerKnownAtStart)
         => /\ evals[e].result.action = "block"
            /\ "known_bundler" \in FlagTypesOf(e)

\* an evaluation of a buy of a wallet that only a promotion has put into the
\* registry (no caller reports it), made after the promotion
C28_Witness ==
  \E e \in EvalIds :
    /\ Resolved(e) /\ evals[e].buyerKnownAtStart
    /\ buyerWalletOf(evals[e].tx) \notin ReportedWallets
    /\ evals[e].result.action = "block"

\* the holder records of a wallet on a launch, and their balance
HoldersOf(hs, l, wallet) == {i \in DOMAIN hs[l] : hs[l][i].wallet = wallet}

BalanceOf(hs, l, wallet) ==
  SumSeq([i \in DOMAIN hs[l] |-> IF hs[l][i].wallet = wallet THEN hs[l][i].balance ELSE 0])

\* the tokens of the buys of wallet on launch l that complete in this step
CompletedNow(l, wallet) ==
  {r \in EvalIds : /\ reqs[r].pc = "awaiting" /\ reqs'[r].pc = "responded"
                   /\ reqs[r].launchId = l /\ reqs[r].wallet = wallet}

\* C29: under any interleaving of concurrent buy requests, each launch has
\* at most one Holder per wallet, the launch's holders counter equals the
\* number of its Holder records, and a holder's balance is the sum of the
\* token amounts of all its completed buys: every step adds to the balance
\* of a wallet the tokens of the buy it completes, and nothing else.
C29_HoldersConsistent ==
  [][\A l \in LaunchIds :
       /\ \A w \in Wallets : Cardinality(HoldersOf(holders', l, w)) <= 1
       /\ launches'[l].holders = Len(holders'[l])
       /\ \A w \in Wallets :
            LET done == CompletedNow(l, w)
            IN /\ Cardinality(done) <= 1
               /\ BalanceOf(holders', l, w) =
                    BalanceOf(holders, l, w)
                      + (IF done = {} THEN 0
                         ELSE reqs[CHOOSE r \in done : TRUE].amount * TOKENS_PER_SOL)]_vars

\* two requests of one wallet answered, both buys in the holder's balance,
\* and the launch has other holders
C29_Witness ==
  \E l \in LaunchIds :
    /\ Len(holders[l]) >= 2
    /\ \A r \in EvalIds :
         /\ reqs[r].pc = "responded"
         /\ reqs[r].launchId = l
         /\ reqs[r].wallet = "w3"
    /\ BalanceOf(holders, l, "w3") = (reqs[1].amount + reqs[2].amount) * TOKENS_PER_SOL

\* C30: after any sequence of addWallet, addEdge and recordBuy, every address
\* listed in a ClusterResult's wallets and every centerWallet is a registered
\* wallet node, so getStats().largestCluster never exceeds
\* getStats().totalNodes.
C30_ClustersOfRegisteredWallets ==
  /\ lastQuery.op = "findClusters"
       => \A k \in DOMAIN lastQuery.clusters :
            /\ \A i \in DOMAIN lastQuery.clusters[k].wallets :
                 EntryIndex(nodes, lastQuery.clusters[k].wallets[i]) # 0
            /\ EntryIndex(nodes, lastQuery.clusters[k].centerWallet) # 0
  /\ lastQuery.op = "getStats"
       => lastQuery.stats.largestCluster <= lastQuery.stats.totalNodes

=============================================================================
